---- MODULE Spec2Model ----
(***************************************************************************)
(* Swarm_NEAT: maze foraging rollouts, fitness scoring, the per-generation *)
(* evaluation loop, stagnation detection, mutation-rate scaling and        *)
(* diversity injection (maze.py,                                           *)
(* agent.py, fitness.py, fitness_v3.py, simulation.py,                     *)
(* adaptive_mutation.py).                                                  *)
(*                                                                         *)
(* Number representation.  Python floats are modelled in fixed point:      *)
(*   energy     in units of 0.5   (150.0 is 300, the step cost 0.5 is 1)   *)
(*   fitness    in units of 0.001 (the floor 0.1 is 100)                   *)
(*   mutation hyperparameters in units of 0.000001 (the cap 0.95 is 950000)*)
(* Grid coordinates are 0-based as in the source; a layout is a sequence   *)
(* of rows, each a sequence of one-character strings, so the source's      *)
(* layout[y][x] is layout[y + 1][x + 1] here.                              *)
(***************************************************************************)
EXTENDS Integers, Sequences, FiniteSets, Bags, TLC

VARIABLES
    maze,                   \* the shared Maze fields: layout, rows, cols, start_pos
    food_lists,             \* the food_items list objects, by object identity
    agents,                 \* sequence of Agent objects
    genomes,                \* the (key, fitness) of the genomes handed to eval_genomes
    pc,                     \* where eval_genomes stands
    tick,                   \* the loop variable "step" of the simulation loop
    idx,                    \* the agent the current tick has come to
    active_agents,          \* active_agents of the current tick
    error,                  \* the exception that left eval_genomes, if any
    HEADLESS,               \* simulation.HEADLESS, set by main.run_neat
    generation_counter,     \* simulation.generation_counter
    SAVED_FOOD_POSITIONS,   \* simulation.SAVED_FOOD_POSITIONS
    SAVED_SPAWN_POSITION,   \* simulation.SAVED_SPAWN_POSITION
    top_5_genomes,          \* simulation.top_5_genomes
    top_5_robust_genomes,   \* simulation.top_5_robust_genomes
    global_best_fitness,    \* simulation.global_best_fitness
    offered,                \* history: the (fitness, key) offered to top_5_genomes
    scored,                 \* the last call made and what came of it
    best_fitness_history,   \* the best fitness of each generation, oldest first
    stagnation_counter,     \* the dict detect_stagnation keeps its count in
    stagnant_run,           \* history: the calls of detect_stagnation in a row, up
                            \* to the last one, that reported stagnant
    population,             \* population.population: genome id -> genome
    config                  \* config.genome_config: the hyperparameters rescaled

rolloutVars == <<maze, food_lists, agents>>

evalVars == <<genomes, pc, tick, idx, active_agents, error, HEADLESS,
              SAVED_FOOD_POSITIONS, SAVED_SPAWN_POSITION>>

archiveVars == <<generation_counter, top_5_genomes, top_5_robust_genomes,
                 global_best_fitness, offered>>

monitorVars == <<best_fitness_history, stagnation_counter, stagnant_run, population,
                 config>>

vars == <<rolloutVars, evalVars, archiveVars, scored, monitorVars>>

(***************************************************************************)
(* Bounds of the model                                                     *)
(***************************************************************************)
\* largest number of non-colliding steps explored in one rollout
MaxMoves == 3

\* largest number of times a rollout explored alternates between colliding
\* and non-colliding steps
MaxTurns == 1

(***************************************************************************)
(* maze.py                                                                 *)
(***************************************************************************)
Abs(n) == IF n < 0 THEN -n ELSE n

Min2(a, b) == IF a <= b THEN a ELSE b

Max2(a, b) == IF a >= b THEN a ELSE b

\* the (x, y) pairs of a rows x cols grid in the order of the nested loops
\* "for y, row in enumerate(layout): for x, cell in enumerate(row)"
RowMajor(rows, cols) ==
    [k \in 1..(rows * cols) |-> <<(k - 1) % cols, (k - 1) \div cols>>]

Symbol(layout, x, y) == layout[y + 1][x + 1]

\* Maze.is_wall
is_wall(m, grid_x, grid_y) ==
    IF grid_y < 1 \/ grid_y > m.rows - 1 THEN TRUE
    ELSE IF grid_x < 1 \/ grid_x > m.cols - 1 THEN TRUE
    ELSE Symbol(m.layout, grid_x, grid_y) = "1"

FoodItem(x, y, big) == [grid_x |-> x, grid_y |-> y, big |-> big, eaten |-> FALSE]

\* Maze.__init__, the parse loop: food given by the symbols 'f' and 'F'
ParsedFood(layout) ==
    LET rows == Len(layout)
        cols == IF rows > 0 THEN Len(layout[1]) ELSE 0
        cells == SelectSeq(RowMajor(rows, cols),
                           LAMBDA c : Symbol(layout, c[1], c[2]) \in {"f", "F"})
    IN [i \in 1..Len(cells) |->
           FoodItem(cells[i][1], cells[i][2], Symbol(layout, cells[i][1], cells[i][2]) = "F")]

\* Maze.__init__, the parse loop: the cells holding 'S' (the last one wins)
StartCells(layout) ==
    LET rows == Len(layout)
        cols == IF rows > 0 THEN Len(layout[1]) ELSE 0
    IN SelectSeq(RowMajor(rows, cols), LAMBDA c : Symbol(layout, c[1], c[2]) = "S")

\* _get_walkable_cells without the test "(x, y) != self.start_pos"
get_walkable_cells_with_start(m) ==
    SelectSeq(RowMajor(m.rows, m.cols),
              LAMBDA c : /\ c[1] >= 1 /\ c[1] <= m.cols - 2
                         /\ c[2] >= 1 /\ c[2] <= m.rows - 2
                         /\ ~is_wall(m, c[1], c[2]))

\* Maze._get_walkable_cells
get_walkable_cells(m) ==
    SelectSeq(RowMajor(m.rows, m.cols),
              LAMBDA c : /\ c[1] >= 1 /\ c[1] <= m.cols - 2
                         /\ c[2] >= 1 /\ c[2] <= m.rows - 2
                         /\ ~is_wall(m, c[1], c[2])
                         /\ c # m.start_pos)

Manhattan(a, b) == Abs(a[1] - b[1]) + Abs(a[2] - b[2])

SeqRange(s) == {s[i] : i \in 1..Len(s)}

\* the candidates the greedy loop of _bfs_spread_positions can pick next:
\* those whose minimum Manhattan distance to the selected cells is largest
\* (among equals the first in the set's iteration order wins, which is not
\* an order the source fixes)
Farthest(selected, remaining) ==
    LET minDist(c) == CHOOSE d \in {Manhattan(c, selected[i]) : i \in 1..Len(selected)} :
                          \A j \in 1..Len(selected) : d <= Manhattan(c, selected[j])
    IN {c \in remaining : \A o \in remaining : minDist(o) <= minDist(c)}

RECURSIVE SpreadLoop(_, _, _)
SpreadLoop(selected, remaining, num_positions) ==
    IF Len(selected) < num_positions /\ remaining # {}
    THEN UNION {SpreadLoop(Append(selected, c), remaining \ {c}, num_positions) :
                    c \in Farthest(selected, remaining)}
    ELSE {selected}

\* Maze._bfs_spread_positions: the set of lists it can return
bfs_spread_positions(walkable_cells, num_positions) ==
    IF num_positions >= Len(walkable_cells) THEN {walkable_cells}
    ELSE UNION {SpreadLoop(<<current>>, SeqRange(walkable_cells) \ {current}, num_positions) :
                    current \in SeqRange(walkable_cells)}

\* Maze._randomize_food_positions, "Not enough space for all food": the
\* counts self.num_small_food and self.num_big_food after the call
\* (int(total * 0.8) is (total * 8) \div 10 for every total below 2000)
food_counts(m, num_small_food, num_big_food) ==
    LET total == Len(get_walkable_cells(m))
        ns == (total * 8) \div 10
    IN IF total < num_small_food + num_big_food
       THEN [num_small_food |-> ns, num_big_food |-> total - ns]
       ELSE [num_small_food |-> num_small_food, num_big_food |-> num_big_food]

\* Maze._randomize_food_positions: the food lists it can produce
randomize_food_positions(m, num_small_food, num_big_food) ==
    LET walkable == get_walkable_cells(m)
        n == food_counts(m, num_small_food, num_big_food)
    IN {[i \in 1..Len(p) |-> FoodItem(p[i][1], p[i][2], i - 1 < n.num_big_food)] :
            p \in bfs_spread_positions(walkable, n.num_small_food + n.num_big_food)}

\* default food counts of Maze.__init__
num_small_food_default == 43

num_big_food_default == 12

\* Maze.__init__ without the food list: layout, size and start position
MazeFields(layout) ==
    [layout |-> layout,
     rows |-> Len(layout),
     cols |-> IF Len(layout) > 0 THEN Len(layout[1]) ELSE 0,
     start_pos |-> StartCells(layout)[Len(StartCells(layout))]]

\* Maze.__init__: the food lists construction can end with
MazeFood(layout, num_small_food, num_big_food) ==
    IF Len(ParsedFood(layout)) = 0
    THEN randomize_food_positions(MazeFields(layout), num_small_food, num_big_food)
    ELSE {ParsedFood(layout)}

\* copy.deepcopy of a food list: new item objects with equal fields
deepcopy(food_items) ==
    [i \in 1..Len(food_items) |->
        [grid_x |-> food_items[i].grid_x, grid_y |-> food_items[i].grid_y,
         big |-> food_items[i].big, eaten |-> food_items[i].eaten]]

\* copy_with_fresh_food with "new_maze.food_items = self.food_items": the
\* new maze shares the list of the maze it was copied from
copy_sharing_food(lists, self, fresh) == [food_items |-> self, lists |-> lists]

\* list objects are told apart by identity: lists maps the identity of each
\* food_items list to its contents, and a maze object is known by the
\* identity of its food_items (layout and geometry are shared and immutable).
\* Maze.copy_with_fresh_food on the maze whose list is self, where fresh is
\* an identity not in use: the new maze's list and the lists after the call
copy_with_fresh_food(lists, self, fresh) ==
    [food_items |-> fresh,
     lists |-> [id \in DOMAIN lists \cup {fresh} |->
                   IF id = fresh THEN deepcopy(lists[self]) ELSE lists[id]]]

\* a Maze as fitness.py and agent.py read it: the shared fields and the
\* contents of its food_items
MazeObject(m, food_items) ==
    [layout |-> m.layout, rows |-> m.rows, cols |-> m.cols,
     start_pos |-> m.start_pos, food_items |-> food_items]

\* get_food_at without the test "not food['eaten']": the first item at the
\* cell, eaten or not
get_food_at_eaten_or_not(food_items, grid_x, grid_y) ==
    LET hits == {i \in 1..Len(food_items) :
                    /\ food_items[i].grid_x = grid_x
                    /\ food_items[i].grid_y = grid_y}
    IN IF hits = {} THEN 0 ELSE CHOOSE i \in hits : \A j \in hits : i <= j

\* Maze.get_food_at: index of the first uneaten item at the cell, 0 for None
get_food_at(food_items, grid_x, grid_y) ==
    LET hits == {i \in 1..Len(food_items) :
                    /\ food_items[i].grid_x = grid_x
                    /\ food_items[i].grid_y = grid_y
                    /\ ~food_items[i].eaten}
    IN IF hits = {} THEN 0 ELSE CHOOSE i \in hits : \A j \in hits : i <= j

(***************************************************************************)
(* agent.py                                                                *)
(***************************************************************************)
\* MAX_STEPS of simulation.py, which eval_genomes hands to Agent as max_steps
FullTickBudget == 600

\* Agent.__init__: energy constants, in units of 0.5
initial_energy == 300

max_energy == 300

energy_per_step == 1

energy_per_collision == 10

\* Agent.step: energy restored by a small and by a big food item, units of 0.5
small_food_energy == 80

big_food_energy == 160

\* Agent.__init__ raises ValueError when the start cell is a wall
AgentConstructible(m) == ~is_wall(m, m.start_pos[1], m.start_pos[2])

\* Agent.__init__
NewAgent(m, food_items, max_steps) ==
    [maze |-> food_items,
     max_steps |-> Max2(max_steps, 1),
     gx |-> m.start_pos[1], gy |-> m.start_pos[2],
     energy |-> initial_energy,
     steps |-> 0, collisions |-> 0,
     collected_small |-> 0, collected_big |-> 0,
     alive |-> TRUE,
     trajectory |-> <<m.start_pos>>,
     collision_steps |-> <<>>,
     visited_positions |-> [c \in {m.start_pos} |-> 1]]

\* the visit count set to 1 instead of visited_positions.get(c, 0) + 1
CountVisit_without_sum(visited, c) ==
    [k \in DOMAIN visited \cup {c} |-> IF k = c THEN 1 ELSE visited[k]]

\* visited_positions[c] = visited_positions.get(c, 0) + 1
CountVisit(visited, c) ==
    [k \in DOMAIN visited \cup {c} |->
        IF k = c THEN (IF c \in DOMAIN visited THEN visited[c] + 1 ELSE 1)
        ELSE visited[k]]

\* the direction indexes a policy can hand to Agent.step: 0 up, 1 down,
\* 2 left, 3 right; 4 stands for every other index, which no branch of the
\* if/elif chain matches
Directions == 0..4

\* Agent.step, "Calculate new position"
Target(a, direction_index) ==
    IF direction_index = 0 THEN <<a.gx, a.gy - 1>>
    ELSE IF direction_index = 1 THEN <<a.gx, a.gy + 1>>
    ELSE IF direction_index = 2 THEN <<a.gx - 1, a.gy>>
    ELSE IF direction_index = 3 THEN <<a.gx + 1, a.gy>>
    ELSE <<a.gx, a.gy>>

\* "Handle wall collision" without the energy check before its return
Collide_without_death(a) ==
    [a EXCEPT !.steps = a.steps + 1,
              !.collisions = a.collisions + 1,
              !.collision_steps = Append(a.collision_steps, a.steps + 1),
              !.energy = a.energy - energy_per_step - energy_per_collision,
              !.trajectory = Append(a.trajectory, <<a.gx, a.gy>>),
              !.visited_positions = CountVisit(a.visited_positions, <<a.gx, a.gy>>)]

\* "Handle wall collision" without "Record failed attempt in trajectory"
Collide_without_trajectory(a) ==
    LET e == a.energy - energy_per_step - energy_per_collision
    IN [a EXCEPT !.steps = a.steps + 1,
                 !.collisions = a.collisions + 1,
                 !.collision_steps = Append(a.collision_steps, a.steps + 1),
                 !.energy = e,
                 !.alive = ~(e <= 0)]

\* Agent.step, "Handle wall collision"
Collide(a) ==
    LET e == a.energy - energy_per_step - energy_per_collision
    IN [a EXCEPT !.steps = a.steps + 1,
                 !.collisions = a.collisions + 1,
                 !.collision_steps = Append(a.collision_steps, a.steps + 1),
                 !.energy = e,
                 !.trajectory = Append(a.trajectory, <<a.gx, a.gy>>),
                 !.visited_positions = CountVisit(a.visited_positions, <<a.gx, a.gy>>),
                 !.alive = ~(e <= 0)]

\* "Check for food collection" without the cap min(self.max_energy, ...)
Eat_uncapped(a, lists) ==
    LET f == get_food_at(lists[a.maze], a.gx, a.gy)
    IN IF f = 0 THEN [agent |-> a, lists |-> lists]
       ELSE [agent |->
                IF lists[a.maze][f].big
                THEN [a EXCEPT !.collected_big = a.collected_big + 1,
                               !.energy = a.energy + big_food_energy]
                ELSE [a EXCEPT !.collected_small = a.collected_small + 1,
                               !.energy = a.energy + small_food_energy],
             lists |-> [lists EXCEPT ![a.maze][f].eaten = TRUE]]

\* Agent.step, "Check for food collection": the agent and the lists after it
Eat(a, lists) ==
    LET f == get_food_at(lists[a.maze], a.gx, a.gy)
    IN IF f = 0 THEN [agent |-> a, lists |-> lists]
       ELSE [agent |->
                IF lists[a.maze][f].big
                THEN [a EXCEPT !.collected_big = a.collected_big + 1,
                               !.energy = Min2(max_energy, a.energy + big_food_energy)]
                ELSE [a EXCEPT !.collected_small = a.collected_small + 1,
                               !.energy = Min2(max_energy, a.energy + small_food_energy)],
             lists |-> [lists EXCEPT ![a.maze][f].eaten = TRUE]]

\* Agent.step, "Update position" up to the food check
MoveTo(a, lists, c) ==
    Eat([a EXCEPT !.steps = a.steps + 1,
                  !.energy = a.energy - energy_per_step,
                  !.gx = c[1], !.gy = c[2],
                  !.trajectory = Append(a.trajectory, c),
                  !.visited_positions = CountVisit(a.visited_positions, c)],
        lists)

\* Agent.step without the checks of alive and of the energy at its head
step_unguarded(m, lists, a, direction_index) ==
    LET t == Target(a, direction_index)
    IN IF is_wall(m, t[1], t[2])
       THEN [agent |-> Collide(a), lists |-> lists]
       ELSE MoveTo(a, lists, t)

\* Agent.step without "Handle wall collision": the position is updated
\* whatever is_wall says of the new cell
step_through_walls(m, lists, a, direction_index) ==
    IF ~a.alive THEN [agent |-> a, lists |-> lists]
    ELSE IF a.energy <= 0 THEN [agent |-> [a EXCEPT !.alive = FALSE], lists |-> lists]
    ELSE MoveTo(a, lists, Target(a, direction_index))

\* Agent.step: the agent and the food lists after the call
step(m, lists, a, direction_index) ==
    IF ~a.alive THEN [agent |-> a, lists |-> lists]
    ELSE IF a.energy <= 0 THEN [agent |-> [a EXCEPT !.alive = FALSE], lists |-> lists]
    ELSE LET t == Target(a, direction_index)
         IN IF is_wall(m, t[1], t[2])
            THEN [agent |-> Collide(a), lists |-> lists]
            ELSE MoveTo(a, lists, t)

(***************************************************************************)
(* Rollout of one agent on a small maze                                    *)
(***************************************************************************)
\* a closed cell: every move collides
LayoutCell ==
    << <<"1", "1", "1">>,
       <<"1", "S", "1">>,
       <<"1", "1", "1">> >>

\* a corridor with one small and one big food item given by symbols
LayoutCorridor ==
    << <<"1", "1", "1", "1", "1">>,
       <<"1", "S", "f", "F", "1">>,
       <<"1", "1", "1", "1", "1">> >>

\* an open room without food symbols: food is placed by the generator
LayoutRoom ==
    << <<"1", "1", "1", "1">>,
       <<"1", "S", "0", "1">>,
       <<"1", "0", "0", "1">>,
       <<"1", "1", "1", "1">> >>

RolloutLayouts == {LayoutCell, LayoutCorridor, LayoutRoom}

Moves(a) == a.steps - a.collisions

\* the number of times the rollout changed between colliding and
\* non-colliding steps
Turns(a) ==
    LET hits == SeqRange(a.collision_steps)
    IN Cardinality({k \in 1..(a.steps - 1) : (k \in hits) # (k + 1 \in hits)})

WithinBounds(a) ==
    /\ Moves(a) <= MaxMoves
    /\ Turns(a) <= MaxTurns

(***************************************************************************)
(* fitness.py and fitness_v3.py.  Fitness values are in units of 0.001;    *)
(* quotients are taken with \div, so a value is within one rounding step   *)
(* per operation of the float the source computes.                         *)
(***************************************************************************)
\* round(1000 * math.log(n)) for n = 1..64
LnTable ==
    <<
       0, 693, 1099, 1386, 1609, 1792, 1946, 2079, 2197, 2303, 2398, 2485,
       2565, 2639, 2708, 2773, 2833, 2890, 2944, 2996, 3045, 3091, 3135, 3178,
       3219, 3258, 3296, 3332, 3367, 3401, 3434, 3466, 3497, 3526, 3555, 3584,
       3611, 3638, 3664, 3689, 3714, 3738, 3761, 3784, 3807, 3829, 3850, 3871,
       3892, 3912, 3932, 3951, 3970, 3989, 4007, 4025, 4043, 4060, 4078, 4094,
       4111, 4127, 4143, 4159
    >>

\* round(1000 * math.log2(n)) for n = 1..64
Log2Table ==
    <<
       0, 1000, 1585, 2000, 2322, 2585, 2807, 3000, 3170, 3322, 3459, 3585,
       3700, 3807, 3907, 4000, 4087, 4170, 4248, 4322, 4392, 4459, 4524, 4585,
       4644, 4700, 4755, 4807, 4858, 4907, 4954, 5000, 5044, 5087, 5129, 5170,
       5209, 5248, 5285, 5322, 5358, 5392, 5426, 5459, 5492, 5524, 5555, 5585,
       5615, 5644, 5672, 5700, 5728, 5755, 5781, 5807, 5833, 5858, 5883, 5907,
       5931, 5954, 5977, 6000
    >>

\* round(1000 * math.exp(-s / 600)) for s = 0..63
ExpDecayTable ==
    <<
       1000, 998, 997, 995, 993, 992, 990, 988, 987, 985, 983, 982,
       980, 979, 977, 975, 974, 972, 970, 969, 967, 966, 964, 962,
       961, 959, 958, 956, 954, 953, 951, 950, 948, 946, 945, 943,
       942, 940, 939, 937, 936, 934, 932, 931, 929, 928, 926, 925,
       923, 922, 920, 919, 917, 915, 914, 912, 911, 909, 908, 906,
       905, 903, 902, 900
    >>

\* round(10^6 * sigmoid_transition(g, 30, 0.2)) for g = 0..260
Transition1Table ==
    <<
       2473, 3018, 3684, 4496, 5486, 6693, 8163, 9952,
       12128, 14774, 17986, 21881, 26597, 32295, 39166, 47426,
       57324, 69138, 83173, 99750, 119203, 141851, 167982, 197816,
       231475, 268941, 310026, 354344, 401312, 450166, 500000, 549834,
       598688, 645656, 689974, 731059, 768525, 802184, 832018, 858149,
       880797, 900250, 916827, 930862, 942676, 952574, 960834, 967705,
       973403, 978119, 982014, 985226, 987872, 990048, 991837, 993307,
       994514, 995504, 996316, 996982, 997527, 997975, 998341, 998641,
       998887, 999089, 999254, 999389, 999500, 999590, 999665, 999725,
       999775, 999816, 999849, 999877, 999899, 999917, 999932, 999945,
       999955, 999963, 999970, 999975, 999980, 999983, 999986, 999989,
       999991, 999992, 999994, 999995, 999996, 999997, 999997, 999998,
       999998, 999998, 999999, 999999, 999999, 999999, 999999, 1000000,
       1000000, 1000000, 1000000, 1000000, 1000000, 1000000, 1000000, 1000000,
       1000000, 1000000, 1000000, 1000000, 1000000, 1000000, 1000000, 1000000,
       1000000, 1000000, 1000000, 1000000, 1000000, 1000000, 1000000, 1000000,
       1000000, 1000000, 1000000, 1000000, 1000000, 1000000, 1000000, 1000000,
       1000000, 1000000, 1000000, 1000000, 1000000, 1000000, 1000000, 1000000,
       1000000, 1000000, 1000000, 1000000, 1000000, 1000000, 1000000, 1000000,
       1000000, 1000000, 1000000, 1000000, 1000000, 1000000, 1000000, 1000000,
       1000000, 1000000, 1000000, 1000000, 1000000, 1000000, 1000000, 1000000,
       1000000, 1000000, 1000000, 1000000, 1000000, 1000000, 1000000, 1000000,
       1000000, 1000000, 1000000, 1000000, 1000000, 1000000, 1000000, 1000000,
       1000000, 1000000, 1000000, 1000000, 1000000, 1000000, 1000000, 1000000,
       1000000, 1000000, 1000000, 1000000, 1000000, 1000000, 1000000, 1000000,
       1000000, 1000000, 1000000, 1000000, 1000000, 1000000, 1000000, 1000000,
       1000000, 1000000, 1000000, 1000000, 1000000, 1000000, 1000000, 1000000,
       1000000, 1000000, 1000000, 1000000, 1000000, 1000000, 1000000, 1000000,
       1000000, 1000000, 1000000, 1000000, 1000000, 1000000, 1000000, 1000000,
       1000000, 1000000, 1000000, 1000000, 1000000, 1000000, 1000000, 1000000,
       1000000, 1000000, 1000000, 1000000, 1000000, 1000000, 1000000, 1000000,
       1000000, 1000000, 1000000, 1000000, 1000000, 1000000, 1000000, 1000000,
       1000000, 1000000, 1000000, 1000000, 1000000
    >>

\* round(10^6 * sigmoid_transition(g, 85, 0.15)) for g = 0..260
Transition2Table ==
    <<
       3, 3, 4, 5, 5, 6, 7, 8,
       10, 11, 13, 15, 18, 20, 24, 28,
       32, 37, 43, 50, 58, 68, 79, 91,
       106, 123, 143, 167, 194, 225, 261, 303,
       353, 410, 476, 553, 642, 746, 867, 1007,
       1170, 1359, 1578, 1833, 2129, 2473, 2872, 3335,
       3872, 4496, 5220, 6060, 7034, 8163, 9471, 10987,
       12742, 14774, 17124, 19840, 22977, 26597, 30769, 35571,
       41091, 47426, 54681, 62973, 72426, 83173, 95349, 109097,
       124553, 141851, 161109, 182426, 205870, 231475, 259225, 289050,
       320821, 354344, 389361, 425557, 462570, 500000, 537430, 574443,
       610639, 645656, 679179, 710950, 740775, 768525, 794130, 817574,
       838891, 858149, 875447, 890903, 904651, 916827, 927574, 937027,
       945319, 952574, 958909, 964429, 969231, 973403, 977023, 980160,
       982876, 985226, 987258, 989013, 990529, 991837, 992966, 993940,
       994780, 995504, 996128, 996665, 997128, 997527, 997871, 998167,
       998422, 998641, 998830, 998993, 999133, 999254, 999358, 999447,
       999524, 999590, 999647, 999697, 999739, 999775, 999806, 999833,
       999857, 999877, 999894, 999909, 999921, 999932, 999942, 999950,
       999957, 999963, 999968, 999972, 999976, 999980, 999982, 999985,
       999987, 999989, 999990, 999992, 999993, 999994, 999995, 999995,
       999996, 999997, 999997, 999998, 999998, 999998, 999998, 999999,
       999999, 999999, 999999, 999999, 999999, 999999, 1000000, 1000000,
       1000000, 1000000, 1000000, 1000000, 1000000, 1000000, 1000000, 1000000,
       1000000, 1000000, 1000000, 1000000, 1000000, 1000000, 1000000, 1000000,
       1000000, 1000000, 1000000, 1000000, 1000000, 1000000, 1000000, 1000000,
       1000000, 1000000, 1000000, 1000000, 1000000, 1000000, 1000000, 1000000,
       1000000, 1000000, 1000000, 1000000, 1000000, 1000000, 1000000, 1000000,
       1000000, 1000000, 1000000, 1000000, 1000000, 1000000, 1000000, 1000000,
       1000000, 1000000, 1000000, 1000000, 1000000, 1000000, 1000000, 1000000,
       1000000, 1000000, 1000000, 1000000, 1000000, 1000000, 1000000, 1000000,
       1000000, 1000000, 1000000, 1000000, 1000000, 1000000, 1000000, 1000000,
       1000000, 1000000, 1000000, 1000000, 1000000
    >>

LnMilli(n) == LnTable[n]

Log2Milli(n) == Log2Table[n]

\* math.exp(-step / max_steps) if max_steps > 0 else 1.0
ExpDecayMilli(s, max_steps) ==
    IF max_steps > 0 THEN ExpDecayTable[(s * 600) \div max_steps + 1] ELSE 1000

RECURSIVE SeqSum(_)
SeqSum(s) == IF s = <<>> THEN 0 ELSE Head(s) + SeqSum(Tail(s))

SetMax(S) == CHOOSE x \in S : \A y \in S : y <= x

SetMin(S) == CHOOSE x \in S : \A y \in S : x <= y

\* the fixed floor "return max(fitness, 0.1)"
FITNESS_FLOOR == 100

\* len(set(trajectory)) if trajectory else 0
UniquePositions(trajectory) == Cardinality(SeqRange(trajectory))

\* "MINIMUM ACTIVITY REQUIREMENT" with the test of the early generations
\* only: from generation 30 on every trajectory passes
ActivityGate_early_only(generation, unique_positions) ==
    IF generation < 30 THEN (IF unique_positions < 5 THEN 100 ELSE 0)
    ELSE 0

\* compute_fitness, "MINIMUM ACTIVITY REQUIREMENT": the value returned at
\* once, or 0 when the trajectory passes the gate
ActivityGate(generation, unique_positions) ==
    IF generation < 30 THEN (IF unique_positions < 5 THEN 100 ELSE 0)
    ELSE IF generation < 100 THEN (IF unique_positions < 3 THEN 500 ELSE 0)
    ELSE (IF unique_positions < 2 THEN 1000 ELSE 0)

\* compute_fitness, "BASE REWARDS" (energy is in units of 0.5: 0.8 is 400/1000)
BaseReward(a) ==
    a.collected_small * 50000 + a.collected_big * 200000
        + 15 * LnMilli(a.steps + 1) + a.energy * 400

\* compute_fitness, "PATH EFFICIENCY"
EfficiencyBonus(a, m) ==
    LET total_distance == Len(a.trajectory)
        total_food == a.collected_small + a.collected_big
        spawn_pos == a.trajectory[1]
        optimal_distance ==
            SeqSum([i \in 1..Len(m.food_items) |->
                       IF m.food_items[i].eaten
                       THEN Manhattan(<<m.food_items[i].grid_x, m.food_items[i].grid_y>>,
                                      spawn_pos)
                       ELSE 0])
    IN IF total_distance > 0 /\ total_food > 0 /\ optimal_distance > 0
       THEN (80000 * optimal_distance * optimal_distance)
                \div (total_distance * total_distance)
       ELSE 0

\* compute_fitness, "EXPLORATION ENTROPY"
ExplorationBonus(a, m) ==
    LET t == a.trajectory
        region_size == Max2(m.cols \div 5, 3)
        region(c) == <<c[1] \div region_size, c[2] \div region_size>>
        visits(r) == Cardinality({k \in 1..Len(t) : region(t[k]) = r})
        total_steps == Len(t)
        \* -sum p log2 p = log2 T - (sum over the entries of log2 of their region's count) / T
        visit_entropy ==
            Log2Milli(total_steps)
                - SeqSum([k \in 1..Len(t) |-> Log2Milli(visits(region(t[k])))])
                      \div total_steps
        num_regions_x == (m.cols + region_size - 1) \div region_size
        num_regions_y == (m.rows + region_size - 1) \div region_size
        total_regions == num_regions_x * num_regions_y
        max_entropy == IF total_regions > 1 THEN Log2Milli(total_regions) ELSE 1000
        normalized_entropy ==
            IF max_entropy > 0 THEN (visit_entropy * 1000) \div max_entropy ELSE 0
        coverage_ratio ==
            IF total_regions > 0
            THEN (Cardinality({region(t[k]) : k \in 1..Len(t)}) * 1000) \div total_regions
            ELSE 0
    IN IF t # <<>> THEN normalized_entropy * 40 + coverage_ratio * 40 ELSE 0

\* compute_fitness, "Collision penalty with exponential decay"
CollisionPenalty(a) ==
    SeqSum([i \in 1..Len(a.collision_steps) |->
               4 * ExpDecayMilli(a.collision_steps[i], a.max_steps)])

\* the longest run of consecutive equal trajectory entries, counted in pairs
MaxConsecutive(t) ==
    LET same(i) == t[i] = t[i + 1]
        runs == {j - i + 1 : i \in 1..(Len(t) - 1), j \in 1..(Len(t) - 1)}
        full == {n \in runs :
                    \E i \in 1..(Len(t) - 1) :
                        /\ i + n - 1 <= Len(t) - 1
                        /\ \A k \in i..(i + n - 1) : same(k)}
    IN IF full = {} THEN 0 ELSE SetMax(full)

\* compute_fitness, "HARSH STAGNATION PENALTY"
StagnationPenalty(a) ==
    LET t == a.trajectory
        u == UniquePositions(t)
        n == Len(t)
        tier == IF u * 100 < 5 * n THEN 300000
                ELSE IF u * 100 < 15 * n THEN 150000
                ELSE IF u * 100 < 30 * n THEN 80000
                ELSE 30000 - (30000 * u) \div n
        stays == MaxConsecutive(t)
    IN IF n > 1
       THEN tier + (IF stays > 10 THEN stays * 3000 ELSE 0)
       ELSE 300000

\* the distinct non-zero step vectors of a trajectory
StepDirections(t) ==
    {<<t[i + 1][1] - t[i][1], t[i + 1][2] - t[i][2]>> : i \in 1..(Len(t) - 1)}
        \ {<<0, 0>>}

\* compute_fitness, "MOVEMENT DIVERSITY BONUS"
MovementBonus(a) ==
    IF Len(a.trajectory) > 1 THEN Cardinality(StepDirections(a.trajectory)) * 10000 ELSE 0

\* compute_fitness, "ENERGY EFFICIENCY MULTIPLIER", in thousandths
EfficiencyMultiplier(a) ==
    LET total_food == a.collected_small + a.collected_big
        total_distance == Len(a.trajectory)
    IN IF total_food > 0 /\ total_distance > 0
       THEN (12000 * total_food) \div (12 * total_food + total_distance)
       ELSE 300

\* "CURRICULUM WEIGHTS" with the weights of the second and the third phase
\* exchanged
PhaseWeights_phases_exchanged(generation) ==
    IF generation < 20 THEN [base |-> 5, efficiency |-> 0, exploration |-> 30]
    ELSE IF generation < 50 THEN [base |-> 18, efficiency |-> 10, exploration |-> 6]
    ELSE IF generation < 120 THEN [base |-> 12, efficiency |-> 3, exploration |-> 15]
    ELSE [base |-> 20, efficiency |-> 15, exploration |-> 3]

\* compute_fitness, "CURRICULUM WEIGHTS", in tenths
PhaseWeights(generation) ==
    IF generation < 20 THEN [base |-> 5, efficiency |-> 0, exploration |-> 30]
    ELSE IF generation < 50 THEN [base |-> 12, efficiency |-> 3, exploration |-> 15]
    ELSE IF generation < 120 THEN [base |-> 18, efficiency |-> 10, exploration |-> 6]
    ELSE [base |-> 20, efficiency |-> 15, exploration |-> 3]

\* the return value without "max(fitness, 0.1)"
Floored_without_max(fitness) == fitness

\* the return value when the floor is applied: max(fitness, 0.1)
Floored(fitness) == Max2(fitness, FITNESS_FLOOR)

\* compute_fitness, "FINAL CALCULATION"
WeightedFitness(a, m, generation) ==
    LET w == PhaseWeights(generation)
        weighted == (BaseReward(a) * w.base
                        + EfficiencyBonus(a, m) * w.efficiency
                        + ExplorationBonus(a, m) * w.exploration) \div 10
        inner == weighted + MovementBonus(a) - CollisionPenalty(a) - StagnationPenalty(a)
    IN (inner * EfficiencyMultiplier(a)) \div 1000

\* fitness.compute_fitness(agent, maze, generation)
compute_fitness(a, m, generation) ==
    LET gate == ActivityGate(generation, UniquePositions(a.trajectory))
    IN IF gate # 0 THEN gate ELSE Floored(WeightedFitness(a, m, generation))

\* fitness_v3.sigmoid_transition for the two transitions of the curriculum,
\* in millionths
Transition1(generation) == Transition1Table[generation + 1]

Transition2(generation) == Transition2Table[generation + 1]

\* min(generation / 200, 1.0) in millionths
Ramp(generation) == Min2(generation * 5000, 1000000)

\* fitness_v3.get_curriculum_weights, in millionths
get_curriculum_weights(generation) ==
    LET t1 == Transition1(generation)
        t2 == Transition2(generation)
        r == Ramp(generation)
        explore_weight == 2000000 - (8 * t1) \div 10 - (6 * t2) \div 10 - (3 * r) \div 10
        food_weight == 500000 + t1 + (5 * t2) \div 10 + (5 * r) \div 10
        survival_weight == 1000000 - (2 * t1) \div 10 - (3 * t2) \div 10 - (2 * r) \div 10
        movement_weight == 300000 + (2 * t1) \div 10 - t2 \div 10
        proximity_weight == Max2(0, 500000 - (2 * t1) \div 10 - (3 * t2) \div 10)
    IN [food |-> Max2(100000, food_weight),
        survival |-> Max2(100000, survival_weight),
        explore |-> Max2(100000, explore_weight),
        movement |-> Max2(100000, movement_weight),
        proximity |-> Max2(0, proximity_weight)]

\* compute_fitness_v3, "COMPONENT 5: PROXIMITY BONUS"
ProximityBonus(a, m, generation) ==
    LET t == a.trajectory
        uneaten == {i \in 1..Len(m.food_items) : ~m.food_items[i].eaten}
        dists == {Manhattan(t[k], <<m.food_items[i].grid_x, m.food_items[i].grid_y>>) :
                      k \in 1..Len(t), i \in uneaten}
    IN IF generation < 50 /\ a.collected_small + a.collected_big = 0
          /\ uneaten # {} /\ t # <<>>
       THEN Max2(0, 50000 - SetMin(dists) * 2500)
       ELSE 0

\* compute_fitness_v3, "PENALTIES": the stagnation penalty
StagnationPenaltyV3(a) ==
    LET n == Len(a.trajectory)
        u == UniquePositions(a.trajectory)
    IN IF n > 10
       THEN (IF u * 100 < 2 * n THEN 50000 ELSE IF u * 100 < 5 * n THEN 20000 ELSE 0)
       ELSE 0

\* compute_fitness_v3, "FINAL FITNESS" before the floor
WeightedFitnessV3(a, m, generation) ==
    LET w == get_curriculum_weights(generation)
        food_score == a.collected_small * 50000 + a.collected_big * 200000
        survival_score == a.steps * 500
        exploration_score == UniquePositions(a.trajectory) * 2000
        movement_bonus == MovementBonus(a)
        \* score * weight, the weight taken in thousandths
        weighted(score, weight) == (score * (weight \div 1000)) \div 1000
    IN weighted(food_score, w.food)
           + weighted(survival_score, w.survival)
           + weighted(exploration_score, w.explore)
           + weighted(movement_bonus, w.movement)
           + weighted(ProximityBonus(a, m, generation), w.proximity)
           - Len(a.collision_steps) * 5000
           - StagnationPenaltyV3(a)

\* fitness_v3.compute_fitness_v3(agent, maze, generation)
compute_fitness_v3(a, m, generation) ==
    IF a.trajectory = <<>> THEN 100
    ELSE Floored(WeightedFitnessV3(a, m, generation))

\* the number of positional parameters "def compute_fitness(agent, maze,
\* generation)" declares
compute_fitness_params == 3

\* a call compute_fitness(...) with nargs positional arguments: Python raises
\* TypeError before the body runs unless nargs is the number of parameters
CallComputeFitness(nargs, a, m, generation) ==
    IF nargs = compute_fitness_params
    THEN [raised |-> FALSE, value |-> compute_fitness(a, m, generation)]
    ELSE [raised |-> TRUE, value |-> 0]

(***************************************************************************)
(* simulation.py: eval_genomes                                             *)
(***************************************************************************)
\* Python's None, and a present value
None == {}

Some(x) == {x}

Value(o) == CHOOSE x \in o : TRUE

\* the largest number of genomes handed to eval_genomes
NumGenomes == 2

\* the tick budget of one generation (600 in simulation.py, reduced here)
MAX_STEPS == 2

RENDER_EVERY == 5

FOOD_RANDOMIZE_EVERY == 3

SPAWN_RANDOMIZE_EVERY == 3

\* the layout eval_genomes builds its master maze from: maze.DEFAULT_MAZE is
\* a 26 x 25 layout without food symbols, reduced here to a corridor of the
\* same alphabet, also without food symbols
DEFAULT_MAZE ==
    << <<"1", "1", "1", "1", "1">>,
       <<"1", "S", "0", "0", "1">>,
       <<"1", "1", "1", "1", "1">> >>

\* the identity of master_maze.food_items; the list of the maze handed to
\* the agent of genomes[i] has identity i
master_maze == 0

\* the number of positional arguments of the scoring calls of simulation.py,
\* compute_fitness(agent, agent.maze, generation_counter, population_stats)
ScoreCallArgs == 4

\* the direction indexes eval_genomes hands to Agent.step: the index of the
\* largest of the network's outputs
PolicyDirections == 0..3

\* eval_genomes, "Create master maze" and the food branch: the pairs
\* <<food_items of the master maze, SAVED_FOOD_POSITIONS>> it can end with
MasterFood(layout) ==
    LET built == MazeFood(layout, num_small_food_default, num_big_food_default)
    IN IF SAVED_FOOD_POSITIONS = None
       THEN {<<f, Some(deepcopy(f))>> : f \in built}
       ELSE IF FOOD_RANDOMIZE_EVERY > 0 /\ generation_counter > 0
               /\ generation_counter % FOOD_RANDOMIZE_EVERY = 0
       THEN {<<f, Some(deepcopy(f))>> :
                 f \in randomize_food_positions(MazeFields(layout),
                           num_small_food_default, num_big_food_default)}
       ELSE {<<deepcopy(Value(SAVED_FOOD_POSITIONS)), SAVED_FOOD_POSITIONS>>}

\* eval_genomes, "SPAWN RANDOMIZATION": whether this call takes the branch
\* that calls master_maze.randomize_spawn(), a method Maze does not have
SpawnRandomized ==
    /\ SAVED_SPAWN_POSITION # None
    /\ SPAWN_RANDOMIZE_EVERY > 0
    /\ generation_counter > 0
    /\ generation_counter % SPAWN_RANDOMIZE_EVERY = 0

\* eval_genomes, "SPAWN RANDOMIZATION": the start position of the other branches
MasterSpawn(m) ==
    IF SAVED_SPAWN_POSITION = None THEN m.start_pos ELSE Value(SAVED_SPAWN_POSITION)

\* eval_genomes without the loop "Initialize all fitness to 0.1"
InitFitness_skipped(gs) == gs

\* eval_genomes, "Initialize all fitness to 0.1"
InitFitness(gs) == [i \in 1..Len(gs) |-> [gs[i] EXCEPT !.fitness = Some(FITNESS_FLOOR)]]

\* eval_genomes, "Create agents": the mazes copied from the master maze for
\* the first n genomes, and the food lists after the copies
RECURSIVE AgentMazes(_, _)
AgentMazes(lists, n) ==
    IF n = 0 THEN [mazes |-> <<>>, lists |-> lists]
    ELSE LET before == AgentMazes(lists, n - 1)
             agent_maze == copy_with_fresh_food(before.lists, master_maze, n)
         IN [mazes |-> Append(before.mazes, agent_maze.food_items),
             lists |-> agent_maze.lists]

\* eval_genomes up to the simulation loop: master maze, fitness
\* initialisation, one agent per genome on its own copy of the master maze
EvalBegin ==
    /\ pc = "engine"
    /\ \E fs \in MasterFood(DEFAULT_MAZE) :
         /\ SAVED_FOOD_POSITIONS' = fs[2]
         /\ IF SpawnRandomized
            THEN /\ pc' = "raised"
                 /\ error' = "AttributeError"
                 /\ UNCHANGED <<rolloutVars, genomes, SAVED_SPAWN_POSITION>>
            ELSE LET m == [MazeFields(DEFAULT_MAZE) EXCEPT
                              !.start_pos = MasterSpawn(MazeFields(DEFAULT_MAZE))]
                     made == AgentMazes([id \in {master_maze} |-> fs[1]], Len(genomes))
                 IN /\ SAVED_SPAWN_POSITION' = Some(m.start_pos)
                    /\ genomes' = InitFitness(genomes)
                    /\ maze' = m
                    /\ food_lists' = made.lists
                    /\ IF Len(genomes) > 0 /\ ~AgentConstructible(m)
                       THEN /\ agents' = <<>>
                            /\ pc' = "raised"
                            /\ error' = "ValueError"
                       ELSE /\ agents' = [i \in 1..Len(genomes) |->
                                             NewAgent(m, made.mazes[i], MAX_STEPS)]
                            /\ pc' = "tick"
                            /\ UNCHANGED error
    /\ tick' = 0
    /\ idx' = 1
    /\ active_agents' = 0
    /\ UNCHANGED <<HEADLESS, archiveVars, scored, monitorVars>>

\* the simulation loop, "Update agents": the turn of agent idx in this tick
TickAgent ==
    /\ pc = "tick"
    /\ idx <= Len(agents)
    /\ IF ~agents[idx].alive
       THEN UNCHANGED <<agents, food_lists, active_agents>>
       ELSE /\ active_agents' = active_agents + 1
            /\ \E d \in PolicyDirections :
                 LET after == step(maze, food_lists, agents[idx], d)
                 IN /\ agents' = [agents EXCEPT ![idx] = after.agent]
                    /\ food_lists' = after.lists
    /\ idx' = idx + 1
    /\ UNCHANGED <<maze, genomes, pc, tick, error, HEADLESS,
                   SAVED_FOOD_POSITIONS, SAVED_SPAWN_POSITION, archiveVars, scored, monitorVars>>

\* whether this tick draws the HUD, which scores the agents
Renders == ~HEADLESS /\ (tick % RENDER_EVERY = 0 \/ tick = MAX_STEPS - 1)

\* the scoring call eval_genomes makes for agents[i]
ScoreAgent(i) ==
    CallComputeFitness(ScoreCallArgs, agents[i],
                       MazeObject(maze, food_lists[agents[i].maze]), generation_counter)

\* the first agent, in list order, whose scoring call raises; 0 when none does
FirstRaising ==
    LET raising == {i \in 1..Len(agents) : ScoreAgent(i).raised}
    IN IF raising = {} THEN 0 ELSE SetMin(raising)

\* the exception the "Render" block ends with, "" when it ends normally:
\* max() of an empty list, or the first scoring call that raises
RenderError ==
    IF Len(agents) = 0 THEN "ValueError"
    ELSE IF FirstRaising # 0 THEN "TypeError"
    ELSE ""

\* the simulation loop after the agents' turns: "Render", "Stop if all dead"
\* and the loop's own end
TickEnd ==
    /\ pc = "tick"
    /\ idx = Len(agents) + 1
    /\ IF Renders /\ RenderError # ""
       THEN /\ pc' = "raised"
            /\ error' = RenderError
            /\ UNCHANGED <<tick, idx, active_agents>>
       ELSE IF active_agents = 0 \/ tick + 1 >= MAX_STEPS
       THEN /\ pc' = "score"
            /\ UNCHANGED <<tick, idx, active_agents, error>>
       ELSE /\ tick' = tick + 1
            /\ idx' = 1
            /\ active_agents' = 0
            /\ UNCHANGED <<pc, error>>
    /\ UNCHANGED <<rolloutVars, genomes, HEADLESS,
                   SAVED_FOOD_POSITIONS, SAVED_SPAWN_POSITION, archiveVars, scored, monitorVars>>

\* "ge[i].fitness = fitness" for the agents before position n
ScoredUpTo(gs, n) ==
    [i \in 1..Len(gs) |->
        IF i < n THEN [gs[i] EXCEPT !.fitness = Some(ScoreAgent(i).value)] ELSE gs[i]]

\* "ge[i].fitness = max(0.1, fitness)" for the agents before position n
QuitScoredUpTo(gs, n) ==
    [i \in 1..Len(gs) |->
        IF i < n
        THEN [gs[i] EXCEPT !.fitness = Some(Max2(FITNESS_FLOOR, ScoreAgent(i).value))]
        ELSE gs[i]]

\* the simulation loop, "Handle quit": a QUIT event at the start of a tick
\* scores every agent and leaves the process
Quit ==
    /\ pc = "tick"
    /\ idx = 1
    /\ active_agents = 0
    /\ ~HEADLESS
    /\ IF FirstRaising # 0
       THEN /\ genomes' = QuitScoredUpTo(genomes, FirstRaising)
            /\ pc' = "raised"
            /\ error' = "TypeError"
       ELSE /\ genomes' = QuitScoredUpTo(genomes, Len(genomes) + 1)
            /\ pc' = "exited"
            /\ UNCHANGED error
    /\ UNCHANGED <<rolloutVars, tick, idx, active_agents, HEADLESS,
                   SAVED_FOOD_POSITIONS, SAVED_SPAWN_POSITION, archiveVars, scored, monitorVars>>

\* eval_genomes, "Compute fitness for each agent WITH STATS": the loop runs
\* to the first call that raises, and nothing in eval_genomes catches it
Score ==
    /\ pc = "score"
    /\ IF FirstRaising # 0
       THEN /\ genomes' = ScoredUpTo(genomes, FirstRaising)
            /\ pc' = "raised"
            /\ error' = "TypeError"
       ELSE /\ genomes' = ScoredUpTo(genomes, Len(genomes) + 1)
            /\ pc' = "scored"
            /\ UNCHANGED error
    /\ UNCHANGED <<rolloutVars, tick, idx, active_agents, HEADLESS,
                   SAVED_FOOD_POSITIONS, SAVED_SPAWN_POSITION, archiveVars, scored, monitorVars>>

(***************************************************************************)
(* simulation.py: eval_genomes after scoring, and the top-5 archives       *)
(***************************************************************************)
\* the length the archive lists are cut to, "[:5]"
ARCHIVE_SIZE == 5

\* eval_genomes, "Verify all have fitness"
Verified(gs) ==
    [i \in 1..Len(gs) |->
        IF gs[i].fitness = None \/ Value(gs[i].fitness) <= 0
        THEN [gs[i] EXCEPT !.fitness = Some(FITNESS_FLOOR)]
        ELSE gs[i]]

\* eval_genomes, "Find best genome this generation": the position of the
\* first genome of the highest fitness above 0.0, 0 for None
BestGenome(gs) ==
    LET above == {i \in 1..Len(gs) : Value(gs[i].fitness) > 0}
        best == {i \in above : \A j \in above : Value(gs[j].fitness) <= Value(gs[i].fitness)}
    IN IF above = {} THEN 0 ELSE SetMin(best)

\* list.sort(key=lambda x: x[0], reverse=True): highest fitness first; the
\* sort is stable, so among equal fitness the earlier entry stays in front
RECURSIVE SortedDescending(_)
SortedDescending(list) ==
    IF list = <<>> THEN <<>>
    ELSE LET first == SetMin({i \in 1..Len(list) :
                                 \A j \in 1..Len(list) : list[j].fitness <= list[i].fitness})
         IN <<list[first]>>
                \o SortedDescending(SubSeq(list, 1, first - 1)
                                        \o SubSeq(list, first + 1, Len(list)))

\* list[:5]
Truncated(list) == SubSeq(list, 1, Min2(Len(list), ARCHIVE_SIZE))

\* the "TOP 5 GLOBAL" block without the test of is_duplicate
UpdateTop5_keeping_duplicates(list, best_fitness_this_gen, key) ==
    LET should_add == IF Len(list) < ARCHIVE_SIZE THEN TRUE
                      ELSE best_fitness_this_gen > list[ARCHIVE_SIZE].fitness
    IN IF should_add
       THEN Truncated(SortedDescending(Append(list,
                [fitness |-> best_fitness_this_gen, key |-> key])))
       ELSE list

\* the "TOP 5 GLOBAL" block with the admission bar read from the first
\* entry instead of the fifth
UpdateTop5_bar_at_first(list, best_fitness_this_gen, key) ==
    LET is_duplicate == \E i \in 1..Len(list) : list[i].key = key
        should_add == IF Len(list) < ARCHIVE_SIZE THEN TRUE
                      ELSE best_fitness_this_gen > list[1].fitness
    IN IF ~is_duplicate /\ should_add
       THEN Truncated(SortedDescending(Append(list,
                [fitness |-> best_fitness_this_gen, key |-> key])))
       ELSE list

\* eval_genomes, "TOP 5 GLOBAL (Current Config)"
UpdateTop5(list, best_fitness_this_gen, key) ==
    LET is_duplicate == \E i \in 1..Len(list) : list[i].key = key
        should_add == IF Len(list) < ARCHIVE_SIZE THEN TRUE
                      ELSE best_fitness_this_gen > list[ARCHIVE_SIZE].fitness
    IN IF ~is_duplicate /\ should_add
       THEN Truncated(SortedDescending(Append(list,
                [fitness |-> best_fitness_this_gen, key |-> key])))
       ELSE list

\* eval_genomes, "TOP 5 ROBUST (Tested on Multiple Configs)", from "Check if
\* should add to robust top 5" on
UpdateTop5Robust(list, robust_fitness, key) ==
    LET is_duplicate_robust == \E i \in 1..Len(list) : list[i].key = key
        should_add_robust == IF Len(list) < ARCHIVE_SIZE THEN TRUE
                             ELSE robust_fitness > list[ARCHIVE_SIZE].fitness
    IN IF ~is_duplicate_robust /\ should_add_robust
       THEN Truncated(SortedDescending(Append(list,
                [fitness |-> robust_fitness, key |-> key])))
       ELSE list

\* the test of line 269 on a generation number: whether the robustness of
\* the generation's best genome is tested
RobustGeneration(generation) == generation > 0 /\ generation % 5 = 0

\* test_genome_robustness: its first statement after building the test maze
\* calls test_maze.randomize_spawn(), a method Maze does not have
RobustnessTestError == "AttributeError"

\* eval_genomes from "Verify all have fitness" to its end
EvalTail ==
    /\ pc = "scored"
    /\ LET gs == Verified(genomes)
           best == BestGenome(gs)
           best_fitness_this_gen == IF best = 0 THEN 0 ELSE Value(gs[best].fitness)
       IN /\ genomes' = gs
          /\ top_5_genomes' =
                 IF best # 0
                 THEN UpdateTop5(top_5_genomes, best_fitness_this_gen, gs[best].key)
                 ELSE top_5_genomes
          /\ IF best # 0 /\ RobustGeneration(generation_counter)
             THEN /\ pc' = "raised"
                  /\ error' = RobustnessTestError
                  /\ UNCHANGED <<global_best_fitness, generation_counter>>
             ELSE /\ global_best_fitness' = Max2(global_best_fitness, best_fitness_this_gen)
                  /\ IF Len(gs) = 0
                     THEN /\ pc' = "raised"
                          /\ error' = "ZeroDivisionError"
                          /\ UNCHANGED generation_counter
                     ELSE /\ pc' = "returned"
                          /\ generation_counter' = generation_counter + 1
                          /\ UNCHANGED error
    /\ UNCHANGED <<rolloutVars, tick, idx, active_agents, HEADLESS,
                   SAVED_FOOD_POSITIONS, SAVED_SPAWN_POSITION,
                   top_5_robust_genomes, offered, scored, monitorVars>>

(***************************************************************************)
(* Specifications                                                          *)
(***************************************************************************)
\* the value of `scored' before any scoring call
NoCall == [call |-> "none", raised |-> FALSE, value |-> 0]

\* the module globals of simulation.py as the import leaves them
GlobalsAtImport ==
    /\ SAVED_FOOD_POSITIONS = None
    /\ SAVED_SPAWN_POSITION = None
    /\ top_5_genomes = <<>>
    /\ top_5_robust_genomes = <<>>
    /\ global_best_fitness = 0
    /\ offered = EmptyBag

\* the hyperparameters adjust_mutation_rates_v2 rescales, in millionths, as
\* a configuration file of the engine can set them (the file is not part of
\* the sources): conn_add_prob 0.5, node_add_prob 0.2, weight_mutate_power 1.0
DefaultRates ==
    [conn_add_prob |-> 500000, node_add_prob |-> 200000, weight_mutate_power |-> 1000000]

\* the stagnation monitor and the diversity injector have nothing to work on
NoMonitor ==
    /\ best_fitness_history = <<>>
    /\ stagnation_counter = [count |-> 0]
    /\ stagnant_run = 0
    /\ population = <<>>
    /\ config = DefaultRates

\* eval_genomes is not running
NoEvaluation ==
    /\ genomes = <<>>
    /\ tick = 0
    /\ idx = 1
    /\ active_agents = 0
    /\ error = ""
    /\ HEADLESS = TRUE

\* Maze(layout) followed by Agent(maze, net)
Init ==
    /\ \E layout \in RolloutLayouts :
         /\ Len(StartCells(layout)) > 0
         /\ maze = MazeFields(layout)
         /\ AgentConstructible(MazeFields(layout))
         /\ \E food \in MazeFood(layout, num_small_food_default, num_big_food_default) :
              food_lists = [id \in {master_maze} |-> food]
         /\ agents = <<NewAgent(MazeFields(layout), master_maze, FullTickBudget)>>
    /\ pc = "rollout"
    /\ generation_counter = 0
    /\ scored = NoCall
    /\ NoEvaluation
    /\ GlobalsAtImport
    /\ NoMonitor

\* one call agent.step(direction_index)
Step(i, d) ==
    /\ WithinBounds(step(maze, food_lists, agents[i], d).agent)
    /\ agents' = [agents EXCEPT ![i] = step(maze, food_lists, agents[i], d).agent]
    /\ food_lists' = step(maze, food_lists, agents[i], d).lists
    /\ UNCHANGED <<maze, evalVars, archiveVars, scored, monitorVars>>

Next == \E i \in 1..Len(agents) : \E d \in Directions : Step(i, d)

Spec == Init /\ [][Next]_vars

(***************************************************************************)
(* Scoring of finished rollouts: the fitness functions applied to agent    *)
(* states drawn from bounded sets                                          *)
(***************************************************************************)
\* a corridor of six open cells with one small and one big food item
LayoutGallery ==
    << <<"1", "1", "1", "1", "1", "1", "1", "1">>,
       <<"1", "S", "0", "f", "F", "0", "0", "1">>,
       <<"1", "1", "1", "1", "1", "1", "1", "1">> >>

\* the trajectory of an agent that stays on the start cell for `stays' steps
\* and then walks `walk' cells to the right
Trajectory(stays, walk) ==
    [k \in 1..(1 + stays + walk) |->
        IF k <= stays + 1 THEN <<1, 1>> ELSE <<k - stays, 1>>]

SampleTrajectories ==
    {<<>>} \cup {Trajectory(stays, walk) : stays \in {0, 1, 7, 12, 20}, walk \in 0..5}

\* a collision at each of the first n steps
CollisionLog(n) == [k \in 1..n |-> k]

SampleEnergies == {-energy_per_collision, 0, initial_energy}

SampleGenerations == {0, 19, 20, 29, 30, 49, 50, 99, 100, 119, 120, 200, 260}

\* the food list of the gallery with the given items eaten
GalleryFood(small_eaten, big_eaten) ==
    [i \in 1..Len(ParsedFood(LayoutGallery)) |->
        [ParsedFood(LayoutGallery)[i] EXCEPT
            !.eaten = IF ParsedFood(LayoutGallery)[i].big THEN big_eaten ELSE small_eaten]]

\* an agent as a rollout leaves it, with the fields the fitness functions read
FinishedAgent(trajectory, collisions, energy, small_eaten, big_eaten) ==
    [maze |-> master_maze,
     max_steps |-> FullTickBudget,
     gx |-> IF trajectory = <<>> THEN 1 ELSE trajectory[Len(trajectory)][1],
     gy |-> 1,
     energy |-> energy,
     steps |-> Max2(Len(trajectory) - 1, 0),
     collisions |-> collisions,
     collected_small |-> IF small_eaten THEN 1 ELSE 0,
     collected_big |-> IF big_eaten THEN 1 ELSE 0,
     alive |-> energy > 0,
     trajectory |-> trajectory,
     collision_steps |-> CollisionLog(collisions),
     visited_positions |->
         [c \in SeqRange(trajectory) |->
             Cardinality({k \in 1..Len(trajectory) : trajectory[k] = c})]]

InitFitnessInputs ==
    /\ maze = MazeFields(LayoutGallery)
    /\ \E trajectory \in SampleTrajectories :
       \E collisions \in {0, Min2(3, Max2(Len(trajectory) - 1, 0)),
                          Min2(20, Max2(Len(trajectory) - 1, 0))} :
       \E energy \in SampleEnergies :
       \E small_eaten \in BOOLEAN, big_eaten \in BOOLEAN :
         /\ agents = <<FinishedAgent(trajectory, collisions, energy, small_eaten, big_eaten)>>
         /\ food_lists = [id \in {master_maze} |-> GalleryFood(small_eaten, big_eaten)]
    /\ generation_counter \in SampleGenerations
    /\ pc = "fitness"
    /\ scored = NoCall
    /\ NoEvaluation
    /\ GlobalsAtImport
    /\ NoMonitor

ScoredMaze == MazeObject(maze, food_lists[master_maze])

\* fitness.compute_fitness(agent, maze, generation)
ScoreV1 ==
    /\ pc = "fitness"
    /\ scored = NoCall
    /\ scored' = [call |-> "compute_fitness", raised |-> FALSE,
                  value |-> compute_fitness(agents[1], ScoredMaze, generation_counter)]
    /\ UNCHANGED <<rolloutVars, evalVars, archiveVars, monitorVars>>

\* fitness_v3.compute_fitness_v3(agent, maze, generation)
ScoreV3 ==
    /\ pc = "fitness"
    /\ scored = NoCall
    /\ scored' = [call |-> "compute_fitness_v3", raised |-> FALSE,
                  value |-> compute_fitness_v3(agents[1], ScoredMaze, generation_counter)]
    /\ UNCHANGED <<rolloutVars, evalVars, archiveVars, monitorVars>>

\* test_genome_robustness, "Calculate fitness":
\* compute_fitness(agent, test_maze, generation_counter, None)
ScoreWithoutStats ==
    /\ pc = "fitness"
    /\ scored = NoCall
    /\ LET result == CallComputeFitness(ScoreCallArgs, agents[1], ScoredMaze,
                                        generation_counter)
       IN scored' = [call |-> "population_stats=None", raised |-> result.raised,
                     value |-> result.value]
    /\ UNCHANGED <<rolloutVars, evalVars, archiveVars, monitorVars>>

NextFitness == ScoreV1 \/ ScoreV3 \/ ScoreWithoutStats

SpecFitness == InitFitnessInputs /\ [][NextFitness]_vars

(***************************************************************************)
(* One call of eval_genomes by the evolutionary engine                     *)
(***************************************************************************)
\* generation_counter when the engine makes its first call: 0, or the
\* generation of the checkpoint main.run_neat resumed from
ResumeGenerations == {0, 9}

\* the genomes of a population of n, not yet evaluated
Population(n) == [i \in 1..n |-> [key |-> i, fitness |-> None]]

InitEval ==
    /\ maze = MazeFields(DEFAULT_MAZE)
    /\ food_lists = <<>>
    /\ agents = <<>>
    /\ genomes \in {Population(n) : n \in 0..NumGenomes}
    /\ pc = "engine"
    /\ tick = 0
    /\ idx = 1
    /\ active_agents = 0
    /\ error = ""
    /\ HEADLESS \in BOOLEAN
    /\ generation_counter \in ResumeGenerations
    /\ scored = NoCall
    /\ GlobalsAtImport
    /\ NoMonitor

NextEval == EvalBegin \/ TickAgent \/ TickEnd \/ Quit \/ Score \/ EvalTail

SpecEval == InitEval /\ [][NextEval]_vars

(***************************************************************************)
(* The archive blocks of eval_genomes applied to a stream of generation    *)
(* results drawn from bounded sets                                         *)
(***************************************************************************)
\* the largest number of generation results offered to the archives
MaxOffers == 6

\* the genomes that can be the best of a generation, with the fitness they
\* are scored with; a key can come back with another fitness
CandidatePools ==
    { << [key |-> 1, fitness |-> Some(100)], [key |-> 2, fitness |-> Some(200)],
         [key |-> 3, fitness |-> Some(300)], [key |-> 4, fitness |-> Some(400)],
         [key |-> 5, fitness |-> Some(500)], [key |-> 6, fitness |-> Some(600)],
         [key |-> 1, fitness |-> Some(700)] >>,
      << [key |-> 1, fitness |-> Some(300)], [key |-> 2, fitness |-> Some(300)],
         [key |-> 3, fitness |-> Some(500)], [key |-> 4, fitness |-> Some(100)],
         [key |-> 5, fitness |-> Some(300)], [key |-> 6, fitness |-> Some(300)] >> }

\* what test_genome_robustness is taken to return for a genome scored f in
\* its own generation: the same value, or a lower one on the unseen mazes
RobustFitness(f) == {Max2(FITNESS_FLOOR, 800 - f)}

\* the generation numbers the blocks are run at: one that skips the
\* robustness test and one that runs it
ArchiveGenerations == {4, 5}

InitArchive ==
    /\ maze = MazeFields(DEFAULT_MAZE)
    /\ food_lists = <<>>
    /\ agents = <<>>
    /\ genomes \in CandidatePools
    /\ pc = "archive"
    /\ tick = 0
    /\ idx = 1
    /\ active_agents = 0
    /\ error = ""
    /\ HEADLESS = TRUE
    /\ generation_counter = 0
    /\ scored = NoCall
    /\ GlobalsAtImport
    /\ NoMonitor

\* the blocks "TOP 5 GLOBAL" and "TOP 5 ROBUST" of eval_genomes for a
\* generation whose best genome is genomes[best] and whose robustness test
\* returned robust_fitness
ArchiveBlocks(best, generation, robust_fitness) ==
    /\ pc = "archive"
    /\ BagCardinality(offered) < MaxOffers
    /\ top_5_genomes' =
           UpdateTop5(top_5_genomes, Value(genomes[best].fitness), genomes[best].key)
    /\ top_5_robust_genomes' =
           IF RobustGeneration(generation)
           THEN UpdateTop5Robust(top_5_robust_genomes, robust_fitness, genomes[best].key)
           ELSE top_5_robust_genomes
    /\ offered' = offered (+) SetToBag({[fitness |-> Value(genomes[best].fitness),
                                         key |-> genomes[best].key]})
    /\ UNCHANGED <<rolloutVars, evalVars, generation_counter, global_best_fitness, scored,
                   monitorVars>>

NextArchive ==
    \E best \in 1..Len(genomes) : \E generation \in ArchiveGenerations :
        \E robust_fitness \in RobustFitness(Value(genomes[best].fitness)) :
            ArchiveBlocks(best, generation, robust_fitness)

SpecArchive == InitArchive /\ [][NextArchive]_vars

(***************************************************************************)
(* Maze construction, food placement and the wall query on layouts drawn   *)
(* from bounded sets                                                       *)
(***************************************************************************)
\* the 3 x 3 layouts with the start in the middle and any of '0' and '1' on
\* each of the eight border cells
BorderLayouts ==
    {<< <<b[1], b[2], b[3]>>, <<b[4], "S", b[5]>>, <<b[6], b[7], b[8]>> >> :
        b \in [1..8 -> {"0", "1"}]}

\* a corridor of six open cells to the right of the start
LayoutLongCorridor ==
    << <<"1", "1", "1", "1", "1", "1", "1", "1", "1">>,
       <<"1", "S", "0", "0", "0", "0", "0", "0", "1">>,
       <<"1", "1", "1", "1", "1", "1", "1", "1", "1">> >>

\* an open room of five cells around the start, the border open in places
LayoutOpenRoom ==
    << <<"1", "0", "1", "1", "1">>,
       <<"0", "0", "S", "0", "0">>,
       <<"1", "0", "0", "0", "1">>,
       <<"1", "1", "0", "1", "1">> >>

MazeLayouts ==
    BorderLayouts \cup {LayoutCorridor, LayoutRoom, LayoutLongCorridor, LayoutOpenRoom}

\* the (num_small_food, num_big_food) a maze is asked for
RequestedCounts == {<<0, 0>>, <<1, 0>>, <<1, 1>>, <<2, 1>>, <<3, 2>>, <<6, 3>>}

\* the Maze object with the food counts it keeps for randomize_food
CountedMaze(layout, counts) ==
    [layout |-> layout,
     rows |-> MazeFields(layout).rows,
     cols |-> MazeFields(layout).cols,
     start_pos |-> MazeFields(layout).start_pos,
     num_small_food |-> counts.num_small_food,
     num_big_food |-> counts.num_big_food]

\* Maze(layout, num_small_food=n[1], num_big_food=n[2])
InitMaze ==
    /\ \E layout \in MazeLayouts : \E n \in RequestedCounts :
         /\ maze = CountedMaze(layout,
                       IF Len(ParsedFood(layout)) = 0
                       THEN food_counts(MazeFields(layout), n[1], n[2])
                       ELSE [num_small_food |-> n[1], num_big_food |-> n[2]])
         /\ \E food \in MazeFood(layout, n[1], n[2]) :
              food_lists = [id \in {master_maze} |-> food]
         /\ scored = [call |-> "Maze", args |-> n, raised |-> FALSE, value |-> 0]
    /\ agents = <<>>
    /\ pc = "maze"
    /\ generation_counter = 0
    /\ NoEvaluation
    /\ GlobalsAtImport
    /\ NoMonitor

\* whether the maze has just been built or refilled: the queries below are
\* made once on each maze
FreshMaze == pc = "maze" /\ scored.call \in {"Maze", "randomize_food"}

\* maze.randomize_food()
RandomizeFood ==
    /\ FreshMaze
    /\ \E food \in randomize_food_positions(maze, maze.num_small_food, maze.num_big_food) :
         food_lists' = [food_lists EXCEPT ![master_maze] = food]
    /\ maze' = CountedMaze(maze.layout,
                    food_counts(maze, maze.num_small_food, maze.num_big_food))
    /\ scored' = [call |-> "randomize_food",
                  args |-> <<maze.num_small_food, maze.num_big_food>>,
                  raised |-> FALSE, value |-> 0]
    /\ UNCHANGED <<agents, evalVars, archiveVars, monitorVars>>

\* maze._bfs_spread_positions(walkable_cells, num_positions) on the walkable
\* cells of the maze
BfsSpread(num_positions) ==
    /\ FreshMaze
    /\ \E selected \in bfs_spread_positions(get_walkable_cells(maze), num_positions) :
         scored' = [call |-> "_bfs_spread_positions", args |-> <<num_positions>>,
                    raised |-> FALSE, value |-> selected]
    /\ UNCHANGED <<rolloutVars, evalVars, archiveVars, monitorVars>>

\* maze.is_wall(grid_x, grid_y)
IsWall(grid_x, grid_y) ==
    /\ FreshMaze
    /\ scored' = [call |-> "is_wall", args |-> <<grid_x, grid_y>>,
                  raised |-> FALSE, value |-> is_wall(maze, grid_x, grid_y)]
    /\ UNCHANGED <<rolloutVars, evalVars, archiveVars, monitorVars>>

NextMaze ==
    \/ RandomizeFood
    \/ \E num_positions \in 0..(Len(get_walkable_cells(maze)) + 1) : BfsSpread(num_positions)
    \/ \E grid_x \in -1..maze.cols : \E grid_y \in -1..maze.rows : IsWall(grid_x, grid_y)

SpecMaze == InitMaze /\ [][NextMaze]_vars

(***************************************************************************)
(* adaptive_mutation.py: detect_stagnation on a growing history of best    *)
(* fitness values                                                          *)
(***************************************************************************)
\* the longest history explored
MaxHistory == 31

\* the largest count the stagnation counter is taken to
MaxStagnation == 26

\* len(best_fitness_history) below which detect_stagnation returns at once
MIN_HISTORY == 30

\* max(best_fitness_history[-10:])
RecentBest(h) == SetMax({h[i] : i \in (Len(h) - 9)..Len(h)})

\* max(best_fitness_history[-30:-10])
HistoricalBest(h) == SetMax({h[i] : i \in (Len(h) - 29)..(Len(h) - 10)})

\* "is_stagnant = recent_best < historical_best * 1.02"; for the values of
\* SampleBest the float product and comparison give what the exact ones give
IsStagnant(h) == RecentBest(h) * 100 < HistoricalBest(h) * 102

\* the update of stagnation_counter['count'] without its else branch
CountAfter_without_reset(is_stagnant, count) ==
    IF is_stagnant THEN count + 1 ELSE count

\* "if is_stagnant: stagnation_counter['count'] += 1 else: ... = 0"
CountAfter(is_stagnant, count) ==
    IF is_stagnant THEN count + 1 ELSE 0

\* "Determine tier" with the severe tier entered one count early
TierOf_severe_from_24(count) ==
    IF count >= 24 THEN 3
    ELSE IF count >= 10 THEN 2
    ELSE IF count >= 1 THEN 1
    ELSE 0

\* detect_stagnation, "Determine tier"
TierOf(count) ==
    IF count >= 25 THEN 3
    ELSE IF count >= 10 THEN 2
    ELSE IF count >= 1 THEN 1
    ELSE 0

\* detect_stagnation(best_fitness_history, stagnation_counter): the tuple it
\* returns and the counter after the call
detect_stagnation(h, counter) ==
    IF Len(h) < MIN_HISTORY
    THEN [is_stagnant |-> FALSE, tier |-> 0, counter |-> counter]
    ELSE LET count == CountAfter(IsStagnant(h), counter.count)
         IN [is_stagnant |-> IsStagnant(h),
             tier |-> TierOf(count),
             counter |-> [counter EXCEPT !.count = count]]

\* best-fitness values a generation can end with, in units of 0.001: 100.0,
\* exactly 2% above it, and more than 2% above it
SampleBest == {100000, 102000, 103000}

\* the values the best fitness of the next generation is drawn from: a run
\* opens with 100.0 or 103.0, stays at 100.0 up to generation 26 and is free
\* from then on
NextBest(h) ==
    IF Len(h) = 0 THEN {100000, 103000}
    ELSE IF Len(h) < MIN_HISTORY - 3 THEN {100000}
    ELSE SampleBest

InitMonitor ==
    /\ maze = MazeFields(DEFAULT_MAZE)
    /\ food_lists = <<>>
    /\ agents = <<>>
    /\ pc = "monitor"
    /\ generation_counter = 0
    /\ scored = NoCall
    /\ NoEvaluation
    /\ GlobalsAtImport
    /\ NoMonitor

\* the caller's best_fitness_history.append(f) at the end of a generation
RecordBest(f) ==
    /\ pc = "monitor"
    /\ Len(best_fitness_history) < MaxHistory
    /\ best_fitness_history' = Append(best_fitness_history, f)
    /\ scored' = [call |-> "append", args |-> <<f>>, raised |-> FALSE, value |-> <<>>]
    /\ UNCHANGED <<rolloutVars, evalVars, archiveVars,
                   stagnation_counter, stagnant_run, population, config>>

\* is_stagnant, tier = detect_stagnation(best_fitness_history, stagnation_counter)
DetectStagnation ==
    /\ pc = "monitor"
    /\ stagnation_counter.count < MaxStagnation
    /\ LET result == detect_stagnation(best_fitness_history, stagnation_counter)
       IN /\ stagnation_counter' = result.counter
          /\ stagnant_run' = IF result.is_stagnant THEN stagnant_run + 1 ELSE 0
          /\ scored' = [call |-> "detect_stagnation",
                        args |-> <<stagnation_counter.count>>,
                        raised |-> FALSE,
                        value |-> <<result.is_stagnant, result.tier>>]
    /\ UNCHANGED <<rolloutVars, evalVars, archiveVars, best_fitness_history, population,
                   config>>

NextMonitor ==
    \/ \E f \in NextBest(best_fitness_history) : RecordBest(f)
    \/ DetectStagnation

SpecMonitor == InitMonitor /\ [][NextMonitor]_vars

(***************************************************************************)
(* adaptive_mutation.py: inject_diversity on populations drawn from        *)
(* bounded sets                                                            *)
(***************************************************************************)
\* the largest population the engine hands over
MaxPopulation == 4

\* the largest config.pop_size
MaxPopSize == 5

\* the largest genome id given out
MaxGenomeId == 9

\* "x[1].fitness if x[1].fitness else 0": the sort key of a genome
FitnessKey(genome) == IF genome.fitness = None THEN 0 ELSE Value(genome.fitness)

\* int(len(pop_list) * 0.70); the float product truncates to (7 * n) \div 10
\* for every n below 90
keep_count(n) == (7 * n) \div 10

\* ranked[:keep_count] with the list sorted without reverse=True
KeptSets_lowest_first(pop, keep) ==
    {K \in SUBSET DOMAIN pop :
        /\ Cardinality(K) = keep
        /\ \A a \in K : \A b \in DOMAIN pop \ K : FitnessKey(pop[a]) <= FitnessKey(pop[b])}

\* the ids ranked[:keep_count] can hold: the sort is stable and descending,
\* and among genomes of equal key the order of the dict decides, which the
\* engine fixes
KeptSets(pop, keep) ==
    {K \in SUBSET DOMAIN pop :
        /\ Cardinality(K) = keep
        /\ \A a \in K : \A b \in DOMAIN pop \ K : FitnessKey(pop[a]) >= FitnessKey(pop[b])}

\* config.genome_type(id), configure_new(...) and "new_genome.fitness = 0.1"
NewGenome == [fitness |-> Some(FITNESS_FLOOR), origin |-> "configure_new"]

\* the ids of the loop "for i in range(keep_count, config.pop_size)"
NewIds(pop, pop_size) ==
    LET next_genome_id == SetMax(DOMAIN pop) + 1
    IN next_genome_id..(next_genome_id + (pop_size - keep_count(Cardinality(DOMAIN pop))) - 1)

\* inject_diversity: the values population.population can have after it
inject_diversity(pop, pop_size) ==
    {[k \in K \cup NewIds(pop, pop_size) |-> IF k \in K THEN pop[k] ELSE NewGenome] :
        K \in KeptSets(pop, keep_count(Cardinality(DOMAIN pop)))}

\* the fitness a genome of the engine comes with: unset, or 0.1, 0.5, 0.9
SampleFitness == {None, Some(100), Some(500), Some(900)}

InitInject ==
    /\ maze = MazeFields(DEFAULT_MAZE)
    /\ food_lists = <<>>
    /\ agents = <<>>
    /\ pc = "inject"
    /\ generation_counter = 0
    /\ scored = NoCall
    /\ NoEvaluation
    /\ GlobalsAtImport
    /\ best_fitness_history = <<>>
    /\ stagnation_counter = [count |-> 0]
    /\ stagnant_run = 0
    /\ config = DefaultRates
    /\ \E n \in 0..MaxPopulation : \E fitness \in [1..n -> SampleFitness] :
         population = [k \in 1..n |-> [fitness |-> fitness[k], origin |-> "engine"]]

\* inject_diversity(population, config, generation) with config.pop_size =
\* pop_size; max() of the keys of an empty population raises ValueError
InjectDiversity(pop_size) ==
    /\ pc = "inject"
    /\ IF DOMAIN population = {}
       THEN /\ pc' = "raised"
            /\ error' = "ValueError"
            /\ UNCHANGED population
       ELSE /\ \A k \in NewIds(population, pop_size) : k <= MaxGenomeId
            /\ population' \in inject_diversity(population, pop_size)
            /\ UNCHANGED <<pc, error>>
    /\ scored' = [call |-> "inject_diversity", args |-> <<pop_size>>,
                  raised |-> DOMAIN population = {}, value |-> 0]
    /\ UNCHANGED <<rolloutVars, genomes, tick, idx, active_agents, HEADLESS,
                   SAVED_FOOD_POSITIONS, SAVED_SPAWN_POSITION, archiveVars,
                   best_fitness_history, stagnation_counter, stagnant_run, config>>

NextInject == \E pop_size \in 0..MaxPopSize : InjectDiversity(pop_size)

SpecInject == InitInject /\ [][NextInject]_vars

(***************************************************************************)
(* adaptive_mutation.py: adjust_mutation_rates_v2 on hyperparameters,      *)
(* histories and counters drawn from bounded sets.  Hyperparameters are in *)
(* millionths, scale factors in hundredths.                                *)
(***************************************************************************)
\* "scale_factor" of the tier: 1.20, 1.35, 1.60
ScaleFactor(tier) ==
    IF tier = 1 THEN 120 ELSE IF tier = 2 THEN 135 ELSE 160

\* "Apply exponential scaling" with the cap of conn_add_prob, 0.95, on all
\* three hyperparameters
ScaleUp_with_one_cap(cfg, scale_factor) ==
    [conn_add_prob |-> Min2(950000, (cfg.conn_add_prob * scale_factor) \div 100),
     node_add_prob |-> Min2(950000, (cfg.node_add_prob * scale_factor) \div 100),
     weight_mutate_power |->
         Min2(950000, (cfg.weight_mutate_power * scale_factor) \div 100)]

\* "Apply exponential scaling": min(0.95, .), min(0.70, .), min(2.5, .)
ScaleUp(cfg, scale_factor) ==
    [conn_add_prob |-> Min2(950000, (cfg.conn_add_prob * scale_factor) \div 100),
     node_add_prob |-> Min2(700000, (cfg.node_add_prob * scale_factor) \div 100),
     weight_mutate_power |->
         Min2(2500000, (cfg.weight_mutate_power * scale_factor) \div 100)]

\* "Reduce mutation (exploitation)" without the floors max(0.40, .),
\* max(0.15, .), max(0.70, .)
ScaleDown_without_floor(cfg) ==
    [conn_add_prob |-> (cfg.conn_add_prob * 95) \div 100,
     node_add_prob |-> (cfg.node_add_prob * 95) \div 100,
     weight_mutate_power |-> (cfg.weight_mutate_power * 95) \div 100]

\* "Reduce mutation (exploitation)": max(0.40, .), max(0.15, .), max(0.70, .)
ScaleDown(cfg) ==
    [conn_add_prob |-> Max2(400000, (cfg.conn_add_prob * 95) \div 100),
     node_add_prob |-> Max2(150000, (cfg.node_add_prob * 95) \div 100),
     weight_mutate_power |-> Max2(700000, (cfg.weight_mutate_power * 95) \div 100)]

\* "recent_improvement = best_fitness_history[-1] - best_fitness_history[-10]"
RecentImprovement(h) == h[Len(h)] - h[Len(h) - 9]

\* "Check for progress (exploitation mode)": the two tests that lead to the
\* scale-down, 50 being 50000 in the unit of the history
Exploits(generation, h) ==
    /\ Len(h) >= 10 /\ generation > 100
    /\ RecentImprovement(h) > 50000

\* adjust_mutation_rates_v2 with the flag raised from the moderate tier on
adjust_mutation_rates_v2_flag_from_moderate(cfg, generation, h, counter) ==
    IF generation < 20
    THEN [config |-> cfg, counter |-> counter, is_stagnant |-> FALSE, tier |-> None]
    ELSE LET found == detect_stagnation(h, counter)
         IN [config |-> IF found.tier = 0
                        THEN (IF Exploits(generation, h) THEN ScaleDown(cfg) ELSE cfg)
                        ELSE ScaleUp(cfg, ScaleFactor(found.tier)),
             counter |-> IF found.tier >= 2
                         THEN [found.counter EXCEPT !.diversity_injection_needed = TRUE]
                         ELSE found.counter,
             is_stagnant |-> found.is_stagnant,
             tier |-> Some(found.tier)]

\* adjust_mutation_rates_v2(config, generation, best_fitness_history,
\* stagnation_counter): the hyperparameters and the counter after the call,
\* and what detect_stagnation returned (tier None when it was not called)
adjust_mutation_rates_v2(cfg, generation, h, counter) ==
    IF generation < 20
    THEN [config |-> cfg, counter |-> counter, is_stagnant |-> FALSE, tier |-> None]
    ELSE LET found == detect_stagnation(h, counter)
         IN [config |-> IF found.tier = 0
                        THEN (IF Exploits(generation, h) THEN ScaleDown(cfg) ELSE cfg)
                        ELSE ScaleUp(cfg, ScaleFactor(found.tier)),
             counter |-> IF found.tier = 3
                         THEN [found.counter EXCEPT !.diversity_injection_needed = TRUE]
                         ELSE found.counter,
             is_stagnant |-> found.is_stagnant,
             tier |-> Some(found.tier)]

\* hyperparameters at the defaults, below the floors of the scale-down,
\* between floors and caps, and above the caps of the scale-up
SampleRates ==
    {DefaultRates,
     [conn_add_prob |-> 300000, node_add_prob |-> 100000, weight_mutate_power |-> 500000],
     [conn_add_prob |-> 900000, node_add_prob |-> 600000, weight_mutate_power |-> 2000000],
     [conn_add_prob |-> 990000, node_add_prob |-> 800000, weight_mutate_power |-> 3000000]}

\* n entries of the best fitness f
Flat(n, f) == [k \in 1..n |-> f]

\* histories, in units of 0.001: none, too short for the progress test, flat
\* and rising ones too short for detection, and 30 entries that stagnate,
\* that gain 51.0 over the last 10 entries, and that gain exactly 50.0
SampleHistories ==
    {<<>>,
     <<100000>> \o Flat(8, 151000),
     Flat(10, 100000),
     <<100000>> \o Flat(9, 151000),
     Flat(30, 100000),
     Flat(21, 100000) \o Flat(9, 151000),
     Flat(21, 100000) \o Flat(9, 150000)}

\* generations on both sides of the tests "generation < 20" and
\* "generation > 100"
AdjustGenerations == {19, 20, 100, 101}

\* counters one call before a tier begins
SampleCounts == {0, 9, 24}

InitAdjust ==
    /\ maze = MazeFields(DEFAULT_MAZE)
    /\ food_lists = <<>>
    /\ agents = <<>>
    /\ pc = "adjust"
    /\ generation_counter \in AdjustGenerations
    /\ scored = NoCall
    /\ NoEvaluation
    /\ GlobalsAtImport
    /\ best_fitness_history \in SampleHistories
    /\ stagnation_counter \in [count : SampleCounts, diversity_injection_needed : BOOLEAN]
    /\ stagnant_run = 0
    /\ population = <<>>
    /\ config \in SampleRates

\* stagnation_counter = adjust_mutation_rates_v2(config, generation,
\* best_fitness_history, stagnation_counter)
AdjustMutationRates ==
    /\ pc = "adjust"
    /\ stagnation_counter.count < MaxStagnation
    /\ LET result == adjust_mutation_rates_v2(config, generation_counter,
                                              best_fitness_history, stagnation_counter)
       IN /\ config' = result.config
          /\ stagnation_counter' = result.counter
          /\ stagnant_run' = IF result.is_stagnant THEN stagnant_run + 1 ELSE 0
          /\ scored' = [call |-> "adjust_mutation_rates_v2",
                        args |-> <<config, stagnation_counter>>,
                        raised |-> FALSE,
                        value |-> result.tier]
    /\ UNCHANGED <<rolloutVars, evalVars, archiveVars, best_fitness_history, population>>

NextAdjust == AdjustMutationRates

SpecAdjust == InitAdjust /\ [][NextAdjust]_vars

(***************************************************************************)
(* The curriculum weights of both fitness functions over the generations   *)
(***************************************************************************)
\* the last generation whose weights are computed
MaxGeneration == 259

InitCurriculum ==
    /\ maze = MazeFields(DEFAULT_MAZE)
    /\ food_lists = <<>>
    /\ agents = <<>>
    /\ pc = "curriculum"
    /\ generation_counter \in 0..MaxGeneration
    /\ scored = NoCall
    /\ NoEvaluation
    /\ GlobalsAtImport
    /\ NoMonitor

\* compute_fitness, "CURRICULUM WEIGHTS", for the generation scored
WeighPhase ==
    /\ pc = "curriculum"
    /\ scored.call = "none"
    /\ scored' = [call |-> "CURRICULUM WEIGHTS", raised |-> FALSE,
                  value |-> PhaseWeights(generation_counter)]
    /\ UNCHANGED <<rolloutVars, evalVars, archiveVars, monitorVars>>

\* fitness_v3.get_curriculum_weights(generation)
WeighV3 ==
    /\ pc = "curriculum"
    /\ scored.call = "none"
    /\ scored' = [call |-> "get_curriculum_weights", raised |-> FALSE,
                  value |-> get_curriculum_weights(generation_counter)]
    /\ UNCHANGED <<rolloutVars, evalVars, archiveVars, monitorVars>>

NextCurriculum == WeighPhase \/ WeighV3

SpecCurriculum == InitCurriculum /\ [][NextCurriculum]_vars

(***************************************************************************)
(* Properties                                                              *)
(***************************************************************************)
\* whether the last call of step on agent a ran into a wall
LastStepCollided(a) ==
    /\ a.collision_steps # <<>>
    /\ a.collision_steps[Len(a.collision_steps)] = a.steps

\* C1: compute_fitness and compute_fitness_v3 return a value that is at
\* least the floor 0.1, for every agent state and generation scored
C1_FitnessAtLeastFloor ==
    scored.call \in {"compute_fitness", "compute_fitness_v3"}
        => ~scored.raised /\ scored.value >= FITNESS_FLOOR

\* compute_fitness has passed the activity gate with a weighted sum below
\* the floor, and has returned the floor
C1_FloorApplied ==
    /\ scored.call = "compute_fitness"
    /\ ActivityGate(generation_counter, UniquePositions(agents[1].trajectory)) = 0
    /\ WeightedFitness(agents[1], ScoredMaze, generation_counter) < 0
    /\ scored.value = FITNESS_FLOOR

\* C2: when scoring a candidate in eval_genomes raises, the error does not
\* leave eval_genomes: the generation is not aborted by a scoring error
C2_ScoringErrorContained == ~(pc = "raised" /\ error = "TypeError")

\* C3: whenever eval_genomes has handed control back (by returning, by an
\* exception or by leaving the process), every genome it was given has a
\* fitness that is set and at least 0.1
C3_FitnessSetOnReturn ==
    pc \in {"returned", "raised", "exited"}
        => \A i \in 1..Len(genomes) :
               /\ genomes[i].fitness # None
               /\ Value(genomes[i].fitness) >= FITNESS_FLOOR

\* eval_genomes has handed control back for a population of two genomes
\* that came in without a fitness
C3_ControlBackWithFitness ==
    /\ pc = "raised"
    /\ Len(genomes) >= 2
    /\ \A i \in 1..Len(genomes) : genomes[i].fitness = Some(FITNESS_FLOOR)

\* C4: scoring an agent with the population statistics absent (None), as the
\* robustness test does, does not raise and returns at least the floor
C4_ScoringWithoutStatsReturns ==
    scored.call = "population_stats=None"
        => ~scored.raised /\ scored.value >= FITNESS_FLOOR

\* C5: each archive list holds at most 5 entries, is sorted in
\* non-increasing order of fitness and holds no genome key twice
C5_ArchivesBoundedSortedDistinct ==
    \A list \in {top_5_genomes, top_5_robust_genomes} :
        /\ Len(list) <= 5
        /\ \A i \in 1..(Len(list) - 1) : list[i].fitness >= list[i + 1].fitness
        /\ \A i \in 1..Len(list) : \A j \in 1..Len(list) :
               list[i].key = list[j].key => i = j

\* both archives are full after more offers than they hold, one of them a
\* key offered again
C5_FullArchivesAfterRepeat ==
    /\ Len(top_5_genomes) = 5
    /\ Len(top_5_robust_genomes) = 5
    /\ BagCardinality(offered) > 5
    /\ \E o \in DOMAIN offered : offered[o] > 1

\* whether the candidates offered so far have pairwise distinct keys
DistinctKeysOffered ==
    /\ \A o \in DOMAIN offered : offered[o] = 1
    /\ \A o \in DOMAIN offered : \A p \in DOMAIN offered : o.key = p.key => o = p

\* the number of offered candidates whose fitness is above f
OfferedAbove(f) == Cardinality({o \in DOMAIN offered : o.fitness > f})

\* C6: after n candidates with pairwise distinct keys have been offered to
\* top_5_genomes it holds min(n, 5) entries whose fitness values are the
\* min(n, 5) highest offered; once the list is full the fitness of its last
\* entry never decreases
C6_ArchiveKeepsHighest ==
    /\ [](DistinctKeysOffered =>
            /\ Len(top_5_genomes) = Min2(BagCardinality(offered), 5)
            /\ \A i \in 1..Len(top_5_genomes) :
                   /\ [fitness |-> top_5_genomes[i].fitness,
                       key |-> top_5_genomes[i].key] \in DOMAIN offered
                   /\ OfferedAbove(top_5_genomes[i].fitness) < i
            /\ \A o \in DOMAIN offered :
                   (\A i \in 1..Len(top_5_genomes) : top_5_genomes[i].key # o.key)
                       => /\ Len(top_5_genomes) = 5
                          /\ o.fitness <= top_5_genomes[5].fitness)
    /\ [][Len(top_5_genomes) = 5 =>
              /\ Len(top_5_genomes') = 5
              /\ top_5_genomes'[5].fitness >= top_5_genomes[5].fitness]_vars

\* six candidates of strictly increasing fitness and distinct keys have been
\* offered and the archive holds the five highest
C6_SixOfferedFiveKept ==
    /\ DistinctKeysOffered
    /\ {o.fitness : o \in DOMAIN offered} = {100, 200, 300, 400, 500, 600}
    /\ [i \in 1..Len(top_5_genomes) |-> top_5_genomes[i].fitness]
           = <<600, 500, 400, 300, 200>>

\* C7: once an agent is dead it stays dead, and a later call of step leaves
\* the agent's fields and its maze's food flags unchanged
C7_DeadIsTerminal ==
    [][\A i \in 1..Len(agents) :
           ~agents[i].alive => /\ agents'[i] = agents[i]
                               /\ food_lists' = food_lists]_vars

\* an agent found dead by the energy check at the head of step
C7_DeadByDrain == \E i \in 1..Len(agents) : ~agents[i].alive /\ agents[i].energy = 0

\* C8 as stated: after every call of step, energy <= 0 means dead, however
\* the energy got there
C8_DepletedMeansDead ==
    \A i \in 1..Len(agents) : agents[i].energy <= 0 => ~agents[i].alive

\* C8 amended: an agent whose energy is <= 0 after a call that collided is
\* dead; an agent still alive with energy <= 0 has energy exactly 0 after a
\* call that did not collide, and the next call marks it dead and changes
\* nothing else
C8_DepletedDeadAfterCollisionOrNextCall ==
    /\ [](\A i \in 1..Len(agents) :
              agents[i].energy <= 0 /\ agents[i].alive
                  => /\ agents[i].energy = 0
                     /\ agents[i].steps > 0
                     /\ ~LastStepCollided(agents[i]))
    /\ [][\A i \in 1..Len(agents) :
              agents[i].energy <= 0 /\ agents[i].alive /\ agents'[i] # agents[i]
                  => /\ agents'[i] = [agents[i] EXCEPT !.alive = FALSE]
                     /\ food_lists' = food_lists]_vars

\* an agent dead on return from the call whose collision penalty took its
\* energy below 0
C8_DeadByCollision ==
    \E i \in 1..Len(agents) :
        /\ ~agents[i].alive
        /\ agents[i].energy < 0
        /\ LastStepCollided(agents[i])

\* C9 as stated: 0 <= energy <= max_energy in every reachable state
C9_EnergyWithinZeroAndMax ==
    \A i \in 1..Len(agents) :
        0 <= agents[i].energy /\ agents[i].energy <= max_energy

\* C9 amended: -energy_per_collision <= energy <= max_energy, and energy is
\* below 0 only in a dead agent whose last call collided
C9_EnergyWithinPenaltyAndMax ==
    \A i \in 1..Len(agents) :
        /\ -energy_per_collision <= agents[i].energy
        /\ agents[i].energy <= max_energy
        /\ agents[i].energy < 0 => ~agents[i].alive /\ LastStepCollided(agents[i])

\* an agent at the lowest energy a collision can leave
C9_LowestEnergy == \E i \in 1..Len(agents) : agents[i].energy = -energy_per_collision

\* C10: a step of one agent of a generation leaves the eaten flags of every
\* other agent's maze and of the master maze unchanged
C10_FoodNotShared ==
    [][pc = "tick" /\ idx <= Len(agents)
           => /\ food_lists'[master_maze] = food_lists[master_maze]
              /\ \A j \in 1..Len(agents) :
                     j # idx => food_lists'[agents[j].maze] = food_lists[agents[j].maze]]_vars

\* one agent has eaten an item that is still uneaten in another agent's maze
\* and in the master maze
C10_EatenInOneMazeOnly ==
    /\ Len(agents) >= 2
    /\ \E k \in 1..Len(food_lists[master_maze]) :
           /\ food_lists[agents[1].maze][k].eaten
           /\ ~food_lists[agents[2].maze][k].eaten
           /\ ~food_lists[master_maze][k].eaten

\* whether (x, y) is a cell of the grid of maze m
InGrid(m, x, y) == 0 <= x /\ x < m.cols /\ 0 <= y /\ y < m.rows

\* C11: is_wall(x, y) is true exactly when (x, y) lies outside the grid or
\* the layout holds the wall symbol '1' at (x, y)
C11_WallIffOutsideOrMarked ==
    scored.call = "is_wall"
        => LET x == scored.args[1]
               y == scored.args[2]
           IN scored.value <=> (IF InGrid(maze, x, y)
                                THEN Symbol(maze.layout, x, y) = "1"
                                ELSE TRUE)

\* whether the food list of the maze was placed by the generator: by
\* randomize_food, or by a construction from a layout without food symbols
PlacedByGenerator ==
    /\ pc = "maze"
    /\ \/ scored.call = "randomize_food"
       \/ scored.call = "Maze" /\ ParsedFood(maze.layout) = <<>>

\* C12: after Maze construction without food symbols, and after
\* randomize_food, no two food items share a cell and every food item lies
\* on a cell of the grid that is not a wall and is not the start cell
C12_FoodOnDistinctOpenCells ==
    PlacedByGenerator =>
        LET food == food_lists[master_maze]
        IN /\ \A i \in 1..Len(food) : \A j \in 1..Len(food) :
                  (food[i].grid_x = food[j].grid_x /\ food[i].grid_y = food[j].grid_y)
                      => i = j
           /\ \A i \in 1..Len(food) :
                  /\ InGrid(maze, food[i].grid_x, food[i].grid_y)
                  /\ Symbol(maze.layout, food[i].grid_x, food[i].grid_y) # "1"
                  /\ ~is_wall(maze, food[i].grid_x, food[i].grid_y)
                  /\ <<food[i].grid_x, food[i].grid_y>> # maze.start_pos

\* randomize_food has put an item on every walkable cell of a maze that has
\* room for fewer items than it was built for
C12_EveryWalkableCellFilled ==
    /\ pc = "maze"
    /\ scored.call = "randomize_food"
    /\ Len(food_lists[master_maze]) >= 5
    /\ Len(food_lists[master_maze]) = Len(get_walkable_cells(maze))
    /\ \E i \in 1..Len(food_lists[master_maze]) : food_lists[master_maze][i].big
    /\ \E i \in 1..Len(food_lists[master_maze]) : ~food_lists[master_maze][i].big

\* C13: for a list of M walkable cells and 0 <= N <= M,
\* _bfs_spread_positions returns exactly N pairwise distinct cells, all of
\* them from the list
C13_SpreadReturnsRequested ==
    (/\ scored.call = "_bfs_spread_positions"
     /\ scored.args[1] <= Len(get_walkable_cells(maze)))
        => /\ Len(scored.value) = scored.args[1]
           /\ \A i \in 1..Len(scored.value) : \A j \in 1..Len(scored.value) :
                  scored.value[i] = scored.value[j] => i = j
           /\ SeqRange(scored.value) \subseteq SeqRange(get_walkable_cells(maze))

\* the cells an agent can reach from the start cell in at most k moves
RECURSIVE WithinSteps(_, _)
WithinSteps(m, k) ==
    IF k = 0 THEN {m.start_pos}
    ELSE LET near == WithinSteps(m, k - 1)
         IN near \cup {c \in SeqRange(RowMajor(m.rows, m.cols)) :
                          /\ ~is_wall(m, c[1], c[2])
                          /\ \E n \in near : Manhattan(c, n) = 1}

\* the candidate cells at 4-connected shortest-path distance >= d from the start
FarCells(m, d) ==
    {c \in SeqRange(get_walkable_cells(m)) :
        c \in WithinSteps(m, m.rows * m.cols) /\ c \notin WithinSteps(m, d - 1)}

\* C14: when the generator places the food and at least as many candidate
\* cells as requested items lie at shortest-path distance >= 5 from the
\* start, every food item placed is at distance >= 5 from the start
C14_FoodFarFromStart ==
    (/\ PlacedByGenerator
     /\ Cardinality(FarCells(maze, 5)) >= scored.args[1] + scored.args[2])
        => \A i \in 1..Len(food_lists[master_maze]) :
               <<food_lists[master_maze][i].grid_x, food_lists[master_maze][i].grid_y>>
                   \in FarCells(maze, 5)

\* C15: compute_fitness returns exactly 0.1 for fewer than 5 distinct cells
\* before generation 30, exactly 0.5 for fewer than 3 in generations 30 to
\* 99 and exactly 1.0 for fewer than 2 from generation 100 on, whatever the
\* food eaten, the energy, the steps survived and the collisions
C15_GateReturnsFixedValue ==
    scored.call = "compute_fitness" =>
        LET u == UniquePositions(agents[1].trajectory)
            g == generation_counter
        IN /\ ~scored.raised
           /\ (g < 30 /\ u < 5) => scored.value = 100
           /\ (30 <= g /\ g < 100 /\ u < 3) => scored.value = 500
           /\ (100 <= g /\ u < 2) => scored.value = 1000

\* an agent that ate the big item, kept its full energy and collided has
\* been scored 0.5 in a middle generation for standing on two cells
C15_FedAgentGated ==
    /\ scored.call = "compute_fitness"
    /\ 30 <= generation_counter /\ generation_counter < 100
    /\ UniquePositions(agents[1].trajectory) = 2
    /\ agents[1].collected_big = 1
    /\ agents[1].energy = initial_energy
    /\ agents[1].collision_steps # <<>>
    /\ scored.value = 500

\* the largest of the entries of h at the positions first..last
WindowMax(h, first, last) ==
    CHOOSE v \in {h[i] : i \in first..last} : \A i \in first..last : h[i] <= v

\* C16 as stated: on a history of length >= 30 detect_stagnation reports
\* stagnant exactly when the maximum of the last 10 entries is at most 1.02
\* times the maximum of the 20 entries before them, then adds one to the
\* counter, and otherwise reports not stagnant and sets the counter to 0; on
\* a shorter history it reports not stagnant
C16_StagnantUnlessAboveMargin ==
    scored.call = "detect_stagnation" =>
        LET h == best_fitness_history
            n == Len(h)
        IN IF n >= 30
           THEN /\ scored.value[1] <=>
                       WindowMax(h, n - 9, n) * 100 <= WindowMax(h, n - 29, n - 10) * 102
                /\ scored.value[1] => stagnation_counter.count = scored.args[1] + 1
                /\ ~scored.value[1] => stagnation_counter.count = 0
           ELSE ~scored.value[1]

\* C16 amended: on a history of length >= 30 detect_stagnation reports
\* stagnant exactly when the maximum of the last 10 entries is below 1.02
\* times the maximum of the 20 entries before them, so a gain of exactly 2%
\* is not stagnant; it adds one to the counter when stagnant and sets it to
\* 0 when not; on a shorter history it reports not stagnant and tier 0 and
\* leaves the counter as it was
C16_StagnantBelowMargin ==
    scored.call = "detect_stagnation" =>
        LET h == best_fitness_history
            n == Len(h)
        IN IF n >= 30
           THEN /\ scored.value[1] <=>
                       WindowMax(h, n - 9, n) * 100 < WindowMax(h, n - 29, n - 10) * 102
                /\ scored.value[1] => stagnation_counter.count = scored.args[1] + 1
                /\ ~scored.value[1] => stagnation_counter.count = 0
           ELSE /\ scored.value = <<FALSE, 0>>
                /\ stagnation_counter.count = scored.args[1]

\* after stagnant detections, a generation whose best is exactly 2% above
\* the maximum of the 20 entries before the last 10 has been reported not
\* stagnant and has reset the counter
C16_ResetAtExactMargin ==
    /\ scored.call = "detect_stagnation"
    /\ Len(best_fitness_history) >= 30
    /\ WindowMax(best_fitness_history, Len(best_fitness_history) - 9,
                 Len(best_fitness_history)) = 102000
    /\ WindowMax(best_fitness_history, Len(best_fitness_history) - 29,
                 Len(best_fitness_history) - 10) = 100000
    /\ scored.args[1] >= 2
    /\ scored.value = <<FALSE, 0>>
    /\ stagnation_counter.count = 0

\* C17: the tier detect_stagnation reports on a history of length >= 30 is
\* decided by the counter after the update alone: 0 none, 1 to 9 mild, 10 to
\* 24 moderate, 25 or more severe; so the 1st, 10th and 25th stagnant
\* detection in a row report mild, moderate and severe, and severe is never
\* reported before the 25th
C17_TierByCounter ==
    (scored.call = "detect_stagnation" /\ Len(best_fitness_history) >= 30) =>
        LET count == stagnation_counter.count
            tier == scored.value[2]
        IN /\ count = 0 => tier = 0
           /\ (1 <= count /\ count <= 9) => tier = 1
           /\ (10 <= count /\ count <= 24) => tier = 2
           /\ count >= 25 => tier = 3
           /\ stagnant_run = 1 => tier = 1
           /\ stagnant_run = 10 => tier = 2
           /\ stagnant_run = 25 => tier = 3
           /\ tier = 3 => stagnant_run >= 25

\* the 25th stagnant detection in a row has reported severe
C17_SevereAtTwentyFive ==
    /\ scored.call = "detect_stagnation"
    /\ stagnant_run = 25
    /\ scored.args[1] = 24
    /\ scored.value = <<TRUE, 3>>

\* C18: the population has as many members after inject_diversity as it
\* had before, whatever its size, its fitness values and config.pop_size
C18_InjectionKeepsSize ==
    [][(pc = "inject" /\ population' # population)
           => Cardinality(DOMAIN population') = Cardinality(DOMAIN population)]_vars

\* C19: after inject_diversity on N members, int(0.70 * N) members of the
\* highest fitness are still there under their ids and unchanged, and every
\* other member is a new genome with fitness 0.1 and an id above every id
\* present before the call
C19_TopKeptRestNew ==
    [][(pc = "inject" /\ population' # population) =>
           LET before == DOMAIN population
               kept == before \cap DOMAIN population'
               rank(k) == IF population[k].fitness = None THEN 0
                          ELSE Value(population[k].fitness)
           IN /\ Cardinality(kept) = (7 * Cardinality(before)) \div 10
              /\ \A k \in kept : population'[k] = population[k]
              /\ \A k \in kept : \A d \in before \ kept : rank(k) >= rank(d)
              /\ \A k \in DOMAIN population' \ kept :
                     /\ \A b \in before : k > b
                     /\ population'[k].fitness = Some(100)
                     /\ population'[k].origin = "configure_new"]_vars

\* an injection has kept two genomes of the engine, one of them scored 0.9,
\* and has added two new ones
C19_TwoKeptTwoNew ==
    /\ scored.call = "inject_diversity"
    /\ ~scored.raised
    /\ Cardinality({k \in DOMAIN population : population[k].origin = "engine"}) = 2
    /\ \E k \in DOMAIN population : population[k].fitness = Some(900)
    /\ Cardinality({k \in DOMAIN population : population[k] = NewGenome}) = 2

\* C20: for generations g1 <= g2 the exploration weight at g1 is at least
\* the one at g2 and the food weight at g1 is at most the one at g2, in the
\* phase schedule of compute_fitness (exploration, and food through 'base')
\* and in get_curriculum_weights (explore, food)
C20_WeightsMonotone ==
    /\ scored.call = "CURRICULUM WEIGHTS" =>
           \A g1 \in 0..generation_counter :
               /\ PhaseWeights(g1).exploration >= scored.value.exploration
               /\ PhaseWeights(g1).base <= scored.value.base
    /\ scored.call = "get_curriculum_weights" =>
           \A g1 \in 0..generation_counter :
               /\ get_curriculum_weights(g1).explore >= scored.value.explore
               /\ get_curriculum_weights(g1).food <= scored.value.food

\* the weights of a generation of the last phase have been computed: the
\* exploration weight is below and the food weight above those of
\* generation 0, of the early phase and of the middle phase
C20_LatePhaseWeighed ==
    /\ scored.call = "CURRICULUM WEIGHTS"
    /\ generation_counter >= 120
    /\ scored.value.exploration = 3
    /\ scored.value.base = 20
    /\ \A g1 \in {0, 20, 50} :
           /\ PhaseWeights(g1).exploration > scored.value.exploration
           /\ PhaseWeights(g1).base < scored.value.base
    /\ get_curriculum_weights(0).explore > get_curriculum_weights(generation_counter).explore
    /\ get_curriculum_weights(0).food < get_curriculum_weights(generation_counter).food

\* C21: for generations g1 < g2 the weight that multiplies the survival
\* component at g2 is not larger than the one at g1: in compute_fitness the
\* survival bonus is a term of base_reward, which 'base' multiplies, and in
\* get_curriculum_weights it is the survival weight
C21_SurvivalWeightNeverGrows ==
    /\ scored.call = "CURRICULUM WEIGHTS" =>
           \A g1 \in 0..generation_counter :
               PhaseWeights(g1).base >= scored.value.base
    /\ scored.call = "get_curriculum_weights" =>
           \A g1 \in 0..generation_counter :
               get_curriculum_weights(g1).survival >= scored.value.survival

\* C22: for every generation >= 0 every curriculum weight is strictly
\* positive: base, efficiency and exploration of compute_fitness, and food,
\* survival, explore, movement and proximity of get_curriculum_weights
C22_EveryWeightPositive ==
    /\ scored.call = "CURRICULUM WEIGHTS" =>
           /\ scored.value.base > 0
           /\ scored.value.efficiency > 0
           /\ scored.value.exploration > 0
    /\ scored.call = "get_curriculum_weights" =>
           /\ scored.value.food > 0
           /\ scored.value.survival > 0
           /\ scored.value.explore > 0
           /\ scored.value.movement > 0
           /\ scored.value.proximity > 0

\* C23: a call of step on a live agent with positive energy whose target
\* cell is a wall leaves the position unchanged, adds one to the collision
\* count, appends the index of the step to the collision log, takes
\* energy_per_step + energy_per_collision (0.5 + 5.0) from the energy,
\* appends the unchanged position to the trajectory and changes no food
\* item and no food counter
C23_CollisionFrame ==
    [][\A i \in 1..Len(agents) : \A d \in Directions :
           LET a == agents[i]
               t == Target(a, d)
               after == step(maze, food_lists, a, d)
           IN /\ a.alive /\ a.energy > 0
              /\ is_wall(maze, t[1], t[2])
              /\ agents' = [agents EXCEPT ![i] = after.agent]
              /\ food_lists' = after.lists
              => /\ agents'[i].gx = a.gx /\ agents'[i].gy = a.gy
                 /\ agents'[i].collisions = a.collisions + 1
                 /\ agents'[i].steps = a.steps + 1
                 /\ agents'[i].collision_steps = Append(a.collision_steps, a.steps + 1)
                 /\ agents'[i].energy = a.energy - 11
                 /\ agents'[i].trajectory = Append(a.trajectory, <<a.gx, a.gy>>)
                 /\ agents'[i].collected_small = a.collected_small
                 /\ agents'[i].collected_big = a.collected_big
                 /\ food_lists' = food_lists]_vars

\* an agent that ate the small item of the corridor on its first step and
\* ran into a wall on its second
C23_CollidedAfterMeal ==
    \E i \in 1..Len(agents) :
        /\ agents[i].collisions = 1
        /\ agents[i].collision_steps = <<2>>
        /\ agents[i].collected_small = 1
        /\ agents[i].energy = max_energy - 11
        /\ agents[i].trajectory = << <<1, 1>>, <<2, 1>>, <<2, 1>> >>
        /\ <<agents[i].gx, agents[i].gy>> = <<2, 1>>

\* C24: a call of step that moves a live agent into a cell holding an
\* uneaten food item marks exactly that item eaten, adds one to the counter
\* of its size class and leaves the other counter, and sets the energy to
\* min(max_energy, energy + 40) for a small and min(max_energy, energy + 80)
\* for a big item, energy being the energy left after the step cost; a move
\* into a cell without uneaten food, which includes a cell whose food is
\* already eaten, changes no item and no counter and takes the step cost only
C24_EatingFrame ==
    [][\A i \in 1..Len(agents) : \A d \in Directions :
           LET a == agents[i]
               t == Target(a, d)
               items == food_lists[a.maze]
               uneaten == {k \in 1..Len(items) :
                              /\ <<items[k].grid_x, items[k].grid_y>> = t
                              /\ ~items[k].eaten}
               after == step(maze, food_lists, a, d)
               paid == a.energy - energy_per_step
           IN /\ a.alive /\ a.energy > 0
              /\ ~is_wall(maze, t[1], t[2])
              /\ agents' = [agents EXCEPT ![i] = after.agent]
              /\ food_lists' = after.lists
              => /\ <<agents'[i].gx, agents'[i].gy>> = t
                 /\ uneaten # {} =>
                        \E k \in uneaten :
                            /\ food_lists' = [food_lists EXCEPT ![a.maze][k].eaten = TRUE]
                            /\ items[k].big =>
                                   /\ agents'[i].collected_big = a.collected_big + 1
                                   /\ agents'[i].collected_small = a.collected_small
                                   /\ agents'[i].energy = Min2(max_energy, paid + 160)
                            /\ ~items[k].big =>
                                   /\ agents'[i].collected_small = a.collected_small + 1
                                   /\ agents'[i].collected_big = a.collected_big
                                   /\ agents'[i].energy = Min2(max_energy, paid + 80)
                 /\ uneaten = {} =>
                        /\ food_lists' = food_lists
                        /\ agents'[i].collected_small = a.collected_small
                        /\ agents'[i].collected_big = a.collected_big
                        /\ agents'[i].energy = paid]_vars

\* an agent of the corridor that ate the small item, stepped back and
\* entered the cell of the eaten item again: one item counted, and the
\* second and third step cost energy_per_step each
C24_BackOnEatenCell ==
    \E i \in 1..Len(agents) :
        /\ agents[i].trajectory = << <<1, 1>>, <<2, 1>>, <<1, 1>>, <<2, 1>> >>
        /\ agents[i].collected_small = 1
        /\ agents[i].collected_big = 0
        /\ agents[i].energy = max_energy - 2
        /\ \E k \in 1..Len(food_lists[agents[i].maze]) :
               /\ food_lists[agents[i].maze][k].eaten
               /\ food_lists[agents[i].maze][k].grid_x = 2
               /\ food_lists[agents[i].maze][k].grid_y = 1

\* C28: in every state reached by calls of step from an agent whose
\* construction succeeded, the agent's position is a cell for which is_wall
\* is false
C28_PositionNeverWall ==
    \A i \in 1..Len(agents) : ~is_wall(maze, agents[i].gx, agents[i].gy)

\* an agent that left its start cell, after a step into a wall and two
\* moves, and stands on an open cell next to a wall
C28_MovedAlongWall ==
    \E i \in 1..Len(agents) :
        /\ agents[i].collisions >= 1
        /\ agents[i].steps - agents[i].collisions >= 2
        /\ <<agents[i].gx, agents[i].gy>> # maze.start_pos
        /\ ~is_wall(maze, agents[i].gx, agents[i].gy)
        /\ is_wall(maze, agents[i].gx + 1, agents[i].gy)

\* the number of entries of the trajectory t that are the cell c
Occurrences(t, c) == Cardinality({k \in 1..Len(t) : t[k] = c})

\* C29: in every reachable state of an agent the trajectory has steps + 1
\* entries, the visit counter of every cell is the number of entries of the
\* trajectory that are that cell (no counter for a cell that is not in it),
\* and the collision count is the length of the collision log
C29_BookkeepingConsistent ==
    \A i \in 1..Len(agents) :
        LET a == agents[i]
        IN /\ Len(a.trajectory) = a.steps + 1
           /\ DOMAIN a.visited_positions = SeqRange(a.trajectory)
           /\ \A c \in DOMAIN a.visited_positions :
                  a.visited_positions[c] = Occurrences(a.trajectory, c)
           /\ a.collisions = Len(a.collision_steps)

\* an agent with collisions and moves behind it that has come back to a
\* cell: that cell is counted at least three times and another cell once
C29_CellsRevisited ==
    \E i \in 1..Len(agents) :
        /\ agents[i].collisions >= 2
        /\ agents[i].steps > agents[i].collisions
        /\ \E c \in DOMAIN agents[i].visited_positions :
               agents[i].visited_positions[c] >= 3
        /\ \E c \in DOMAIN agents[i].visited_positions :
               agents[i].visited_positions[c] = 1

\* C25: the tick loop of eval_genomes runs at most MAX_STEPS ticks; in a tick
\* the turn of a live agent is one call of step, the turn of a dead agent
\* changes nothing, and no agent has taken more steps than ticks were begun;
\* the loop is left before the last tick of the budget only at the end of a
\* tick in which no agent was alive
C25_TickLoopBounded ==
    /\ [](pc = "tick" =>
              /\ tick < MAX_STEPS
              /\ \A i \in 1..Len(agents) :
                     agents[i].steps <= tick + (IF i < idx THEN 1 ELSE 0))
    /\ [][pc = "tick" /\ pc' = "tick" /\ idx <= Len(agents) =>
              /\ \A j \in 1..Len(agents) : j # idx => agents'[j] = agents[j]
              /\ ~agents[idx].alive => agents'[idx] = agents[idx]
              /\ agents[idx].alive =>
                     \E d \in PolicyDirections :
                         agents'[idx] = step(maze, food_lists, agents[idx], d).agent]_vars
    /\ [][pc = "tick" /\ pc' # "tick" =>
              /\ idx = Len(agents) + 1
              /\ active_agents = 0 \/ tick = MAX_STEPS - 1]_vars

\* whether the last call was adjust_mutation_rates_v2 and detect_stagnation
\* classified one of the given tiers in it
AdjustedAtTier(tiers) ==
    /\ scored.call = "adjust_mutation_rates_v2"
    /\ scored.value # None
    /\ Value(scored.value) \in tiers

\* C26: on return from a call of adjust_mutation_rates_v2 with generation >=
\* 20 that classified the severe tier, diversity_injection_needed is true;
\* after a call that classified none, mild or moderate the flag is what it
\* was before the call
C26_FlagRaisedBySevereOnly ==
    scored.call = "adjust_mutation_rates_v2" /\ generation_counter >= 20 =>
        /\ scored.value # None
        /\ AdjustedAtTier({3}) =>
               /\ stagnation_counter.diversity_injection_needed = TRUE
               /\ stagnation_counter.count >= 25
        /\ AdjustedAtTier({0, 1, 2}) =>
               stagnation_counter.diversity_injection_needed
                   = scored.args[2].diversity_injection_needed

\* the call that took the counter from 24 to 25 found the flag false and
\* left it true
C26_FlagRaisedAtTwentyFive ==
    /\ AdjustedAtTier({3})
    /\ generation_counter >= 20
    /\ scored.args[2] = [count |-> 24, diversity_injection_needed |-> FALSE]
    /\ stagnation_counter = [count |-> 25, diversity_injection_needed |-> TRUE]

\* C27: a call of adjust_mutation_rates_v2 that classified mild, moderate or
\* severe leaves conn_add_prob = min(0.95, old * factor), node_add_prob =
\* min(0.70, old * factor) and weight_mutate_power = min(2.5, old * factor),
\* the factor being 1.20, 1.35 or 1.60 by tier, so that the three are at most
\* 0.95, 0.70 and 2.5 whatever they were before
C27_ScaledAndCapped ==
    AdjustedAtTier({1, 2, 3}) =>
        LET old == scored.args[1]
            factor == CASE Value(scored.value) = 1 -> 120
                        [] Value(scored.value) = 2 -> 135
                        [] Value(scored.value) = 3 -> 160
            scaled(x) == (x * factor) \div 100
        IN /\ config.conn_add_prob = Min2(950000, scaled(old.conn_add_prob))
           /\ config.node_add_prob = Min2(700000, scaled(old.node_add_prob))
           /\ config.weight_mutate_power = Min2(2500000, scaled(old.weight_mutate_power))
           /\ config.conn_add_prob <= 950000
           /\ config.node_add_prob <= 700000
           /\ config.weight_mutate_power <= 2500000

\* a mild call on 0.90, 0.60 and 2.0: the two probabilities end at their
\* caps and the weight power, below its cap, at 2.0 * 1.20
C27_TwoCappedOneScaled ==
    /\ AdjustedAtTier({1})
    /\ scored.args[1] = [conn_add_prob |-> 900000, node_add_prob |-> 600000,
                         weight_mutate_power |-> 2000000]
    /\ config = [conn_add_prob |-> 950000, node_add_prob |-> 700000,
                 weight_mutate_power |-> 2400000]

\* whether the last call was an exploitation scale-down: tier none,
\* generation > 100, at least 10 entries, and a gain of more than 50 from
\* the tenth entry from the end to the last
ScaledDown ==
    /\ AdjustedAtTier({0})
    /\ generation_counter > 100
    /\ Len(best_fitness_history) >= 10
    /\ best_fitness_history[Len(best_fitness_history)]
           - best_fitness_history[Len(best_fitness_history) - 9] > 50000

\* the hyperparameters rescaled
Hyperparameters == {"conn_add_prob", "node_add_prob", "weight_mutate_power"}

\* C30 as stated: a scale-up call decreases none of the three
\* hyperparameters and an exploitation scale-down increases none, whatever
\* their values before the call
C30_ScalingNeverReverses ==
    /\ AdjustedAtTier({1, 2, 3}) =>
           \A p \in Hyperparameters : config[p] >= scored.args[1][p]
    /\ ScaledDown =>
           \A p \in Hyperparameters : config[p] <= scored.args[1][p]

\* C30 amended: a scale-up call does not decrease a hyperparameter that was
\* between 0 and its cap (0.95, 0.70, 2.5) and sets one that was above its
\* cap to the cap; an exploitation scale-down does not increase a
\* hyperparameter that was at or above its floor (0.40, 0.15, 0.70), keeps
\* it at or above the floor, and sets one that was below its floor to the
\* floor
C30_ScalingWithinCapAndFloor ==
    LET cap == [conn_add_prob |-> 950000, node_add_prob |-> 700000,
                weight_mutate_power |-> 2500000]
        floor == [conn_add_prob |-> 400000, node_add_prob |-> 150000,
                  weight_mutate_power |-> 700000]
        old == scored.args[1]
    IN /\ AdjustedAtTier({1, 2, 3}) =>
              \A p \in Hyperparameters :
                  /\ 0 <= old[p] /\ old[p] <= cap[p] => config[p] >= old[p]
                  /\ old[p] > cap[p] => config[p] = cap[p]
       /\ ScaledDown =>
              \A p \in Hyperparameters :
                  /\ old[p] >= floor[p] => config[p] <= old[p] /\ config[p] >= floor[p]
                  /\ old[p] < floor[p] => config[p] = floor[p]

\* an exploitation scale-down on 0.30, 0.10 and 0.5, all below their
\* floors, has raised the three to the floors
C30_RaisedToFloors ==
    /\ ScaledDown
    /\ scored.args[1] = [conn_add_prob |-> 300000, node_add_prob |-> 100000,
                         weight_mutate_power |-> 500000]
    /\ config = [conn_add_prob |-> 400000, node_add_prob |-> 150000,
                 weight_mutate_power |-> 700000]

====
